---- MODULE Spec2Model ----
(***************************************************************************)
(* A model of the kflux-scripts repository.                                *)
(*                                                                         *)
(* Part I models dev/close_issues.sh, the Jira issue closer: its startup   *)
(* (dependency check, argument parsing, input validation), the extraction  *)
(* of issue keys from the changelog, and the per-issue loop (fetch,        *)
(* classify, comment, transition) with its counters and exit status.       *)
(*                                                                         *)
(* Strings of the script are sequences of one-character strings, so that   *)
(* regular expressions, tr and grep are computed character by character.   *)
(***************************************************************************)
EXTENDS Integers, Sequences, FiniteSets, TLC

(***************************************************************************)
(* Characters and character classes                                        *)
(***************************************************************************)
UpperChars ==
    <<"A","B","C","D","E","F","G","H","I","J","K","L","M",
      "N","O","P","Q","R","S","T","U","V","W","X","Y","Z">>

LowerChars ==
    <<"a","b","c","d","e","f","g","h","i","j","k","l","m",
      "n","o","p","q","r","s","t","u","v","w","x","y","z">>

DigitChars ==
    <<"0","1","2","3","4","5","6","7","8","9">>

SeqRange(s) ==
    {s[i] : i \in 1..Len(s)}

UpperSet ==
    SeqRange(UpperChars)

LowerSet ==
    SeqRange(LowerChars)

DigitSet ==
    SeqRange(DigitChars)

IsUpper(c) ==
    c \in UpperSet

IsLower(c) ==
    c \in LowerSet

IsDigit(c) ==
    c \in DigitSet

IsAlnum(c) ==
    IsUpper(c) \/ IsLower(c) \/ IsDigit(c)

\* A word constituent in the sense of the regular expression anchor \b.
IsWordChar(c) ==
    IsAlnum(c) \/ c = "_"

\* tr '[:upper:]' '[:lower:]' on one character.
ToLowerChar(c) ==
    IF IsUpper(c)
    THEN LowerChars[CHOOSE i \in 1..Len(UpperChars) : UpperChars[i] = c]
    ELSE c

\* Faulty variant of tr_lower: the string is compared as fetched.
tr_lower_identity(s) ==
    s

\* echo "$s" | tr '[:upper:]' '[:lower:]'
tr_lower(s) ==
    [i \in 1..Len(s) |-> ToLowerChar(s[i])]

\* The string of n copies of the character c.
Rep(c, n) ==
    [i \in 1..n |-> c]

\* Whether the string sub occurs in s.
Contains(s, sub) ==
    \E i \in 1..(Len(s) - Len(sub) + 1) : SubSeq(s, i, i + Len(sub) - 1) = sub

SetMax(S) ==
    CHOOSE x \in S : \A y \in S : y <= x

(***************************************************************************)
(* Byte order of the characters of an issue key, for sort -u.              *)
(***************************************************************************)
KeyCharOrder ==
    <<"-">> \o DigitChars \o UpperChars

CharRank(c) ==
    CHOOSE i \in 1..Len(KeyCharOrder) : KeyCharOrder[i] = c

RECURSIVE StrLess(_, _)
StrLess(a, b) ==
    IF b = <<>> THEN FALSE
    ELSE IF a = <<>> THEN TRUE
    ELSE IF a[1] # b[1] THEN CharRank(a[1]) < CharRank(b[1])
    ELSE StrLess(Tail(a), Tail(b))

\* sort -u: the distinct lines, in increasing order.
RECURSIVE SortU(_)
SortU(S) ==
    IF S = {} THEN <<>>
    ELSE LET m == CHOOSE x \in S : \A y \in S \ {x} : StrLess(x, y)
         IN  <<m>> \o SortU(S \ {m})

(***************************************************************************)
(* validate_issue_key: ^[A-Z][A-Z0-9]+-[0-9]+$ and at most 50 characters.  *)
(***************************************************************************)
MaxKeyLen ==
    50

\* Faulty variant of KeyFormatOk: the pattern of the grep,
\* [A-Z][A-Z0-9]*-[0-9]+, which accepts a one-letter project key.
KeyFormatOk_loose(key) ==
    \E d \in 2..(Len(key) - 1) :
        /\ key[d] = "-"
        /\ IsUpper(key[1])
        /\ \A k \in 2..(d - 1) : IsUpper(key[k]) \/ IsDigit(key[k])
        /\ \A k \in (d + 1)..Len(key) : IsDigit(key[k])

KeyFormatOk(key) ==
    \E d \in 3..(Len(key) - 1) :
        /\ key[d] = "-"
        /\ IsUpper(key[1])
        /\ \A k \in 2..(d - 1) : IsUpper(key[k]) \/ IsDigit(key[k])
        /\ \A k \in (d + 1)..Len(key) : IsDigit(key[k])

validate_issue_key(key) ==
    KeyFormatOk(key) /\ Len(key) <= MaxKeyLen

(***************************************************************************)
(* extract_jira_issues: grep -oE '\b[A-Z][A-Z0-9]*-[0-9]+\b' | sort -u,    *)
(* then the validation loop.                                               *)
(***************************************************************************)
\* \b between positions k-1 and k of text: exactly one side is a word character.
WordBoundary(text, k) ==
    LET left  == k - 1 \in 1..Len(text) /\ IsWordChar(text[k - 1])
        right == k \in 1..Len(text) /\ IsWordChar(text[k])
    IN  left # right

\* The pattern matches text[i..j].
GrepMatchAt(text, i, j) ==
    /\ WordBoundary(text, i)
    /\ WordBoundary(text, j + 1)
    /\ IsUpper(text[i])
    /\ \E d \in (i + 1)..(j - 1) :
           /\ text[d] = "-"
           /\ \A k \in (i + 1)..(d - 1) : IsUpper(text[k]) \/ IsDigit(text[k])
           /\ \A k \in (d + 1)..j : IsDigit(text[k])

\* grep -o: the non-overlapping matches from position i on, each the longest
\* match at the leftmost position where one starts.
RECURSIVE GrepScan(_, _)
GrepScan(text, i) ==
    IF i > Len(text) THEN <<>>
    ELSE LET ends == {j \in i..Len(text) : GrepMatchAt(text, i, j)}
         IN  IF ends = {} THEN GrepScan(text, i + 1)
             ELSE <<SubSeq(text, i, SetMax(ends))>>
                      \o GrepScan(text, SetMax(ends) + 1)

raw_issues(text) ==
    SortU(SeqRange(GrepScan(text, 1)))

\* Faulty variant of extract_jira_issues: the candidates are not validated.
extract_unvalidated(text) ==
    raw_issues(text)

\* The lines extract_jira_issues prints for a changelog that exists.
extract_jira_issues(text) ==
    SelectSeq(raw_issues(text), validate_issue_key)

\* The candidates validate_issue_key rejects, each with a log_warn.
extract_warnings(text) ==
    SelectSeq(raw_issues(text), LAMBDA key : ~validate_issue_key(key))

(***************************************************************************)
(* String constants of close_issues.sh                                     *)
(***************************************************************************)
DefaultChangelogFile ==
    <<"c","h","a","n","g","e","l","o","g",".","m","d">>

DefaultJiraUrl ==
    <<"h","t","t","p","s",":","/","/","i","s","s","u","e","s",".","r","e","d","h","a","t",".","c","o","m">>

DefaultRateLimit ==
    <<"1">>

OptChangelog ==
    <<"-","-","c","h","a","n","g","e","l","o","g">>

OptDryRun ==
    <<"-","-","d","r","y","-","r","u","n">>

OptVersion ==
    <<"-","-","v","e","r","s","i","o","n">>

OptJiraUrl ==
    <<"-","-","j","i","r","a","-","u","r","l">>

OptRateLimit ==
    <<"-","-","r","a","t","e","-","l","i","m","i","t">>

OptHelp ==
    <<"-","-","h","e","l","p">>

OptH ==
    <<"-","h">>

SchemeHttp ==
    <<"h","t","t","p",":","/","/">>

SchemeHttps ==
    <<"h","t","t","p","s",":","/","/">>

(***************************************************************************)
(* Input validation                                                        *)
(***************************************************************************)
MaxVersionLen ==
    100

\* validate_version: ^[a-zA-Z0-9._-]+$ and at most 100 characters.
validate_version(version) ==
    /\ Len(version) >= 1
    /\ \A k \in 1..Len(version) :
           IsAlnum(version[k]) \/ version[k] \in {".", "_", "-"}
    /\ Len(version) <= MaxVersionLen

\* (:[0-9]+)?(/.*)?$ on what follows the host name.
UrlTailOk(r) ==
    \/ r = <<>>
    \/ r[1] = "/"
    \/ /\ r[1] = ":"
       /\ \E q \in 2..Len(r) :
              /\ \A k \in 2..q : IsDigit(r[k])
              /\ q = Len(r) \/ r[q + 1] = "/"

\* validate_url: ^https?://[a-zA-Z0-9][a-zA-Z0-9.-]+[a-zA-Z0-9](:[0-9]+)?(/.*)?$
validate_url(url) ==
    \E scheme \in {SchemeHttp, SchemeHttps} :
        LET p == Len(scheme)
        IN  /\ Len(url) >= p
            /\ SubSeq(url, 1, p) = scheme
            /\ \E h \in (p + 3)..Len(url) :
                   /\ IsAlnum(url[p + 1])
                   /\ IsAlnum(url[h])
                   /\ \A k \in (p + 2)..(h - 1) :
                          IsAlnum(url[k]) \/ url[k] \in {".", "-"}
                   /\ UrlTailOk(SubSeq(url, h + 1, Len(url)))

\* validate_file_path: no ".." anywhere in the path.
validate_file_path(path) ==
    ~Contains(path, <<".", ".">>)

\* [[ "$RATE_LIMIT_SECONDS" =~ ^[0-9]+$ ]]
RateLimitIsInteger(r) ==
    Len(r) >= 1 /\ \A k \in 1..Len(r) : IsDigit(r[k])

\* The value of a string of digits (written without a leading zero).
RECURSIVE DecimalValue(_)
DecimalValue(r) ==
    IF r = <<>> THEN 0
    ELSE 10 * DecimalValue(SubSeq(r, 1, Len(r) - 1))
           + ((CHOOSE i \in 1..10 : DigitChars[i] = r[Len(r)]) - 1)

(***************************************************************************)
(* parse_args: the options are read left to right; an option that takes a  *)
(* value and has none, an unknown option and a stray argument end the run  *)
(* with status 1, --help and -h end it with status 0.                      *)
(***************************************************************************)
TakesValue(opt) ==
    opt \in {OptChangelog, OptVersion, OptJiraUrl, OptRateLimit}

SetOption(g, opt, value) ==
    IF opt = OptChangelog THEN [g EXCEPT !.CHANGELOG_FILE = value]
    ELSE IF opt = OptVersion THEN [g EXCEPT !.VERSION = value]
    ELSE IF opt = OptJiraUrl THEN [g EXCEPT !.JIRA_URL = value]
    ELSE [g EXCEPT !.RATE_LIMIT_SECONDS = value]

RECURSIVE parse_args(_, _)
parse_args(args, g) ==
    IF args = <<>> THEN g
    ELSE IF TakesValue(args[1])
    THEN IF Len(args) < 2 \/ args[2] = <<>>
         THEN [g EXCEPT !.outcome = "error"]
         ELSE parse_args(SubSeq(args, 3, Len(args)),
                         SetOption(g, args[1], args[2]))
    ELSE IF args[1] = OptDryRun
    THEN parse_args(Tail(args), [g EXCEPT !.DRY_RUN = TRUE])
    ELSE IF args[1] \in {OptHelp, OptH}
    THEN [g EXCEPT !.outcome = "help"]
    ELSE [g EXCEPT !.outcome = "error"]

(***************************************************************************)
(* The issue tracker's answers                                             *)
(***************************************************************************)
\* A JSON null (a missing field), as opposed to any string of characters.
JsonNull ==
    <<"null">>

StatusDone ==
    <<"D","o","n","e">>

StatusClosedUpper ==
    <<"C","L","O","S","E","D">>

StatusResolvedLower ==
    <<"r","e","s","o","l","v","e","d">>

StatusReleasePending ==
    <<"R","e","l","e","a","s","e"," ","P","e","n","d","i","n","g">>

StatusReleasePendingUpper ==
    <<"R","E","L","E","A","S","E"," ","P","E","N","D","I","N","G">>

StatusInProgress ==
    <<"I","n"," ","P","r","o","g","r","e","s","s">>

StatusUnknown ==
    <<"U","n","k","n","o","w","n">>

AssigneeUnassigned ==
    <<"U","n","a","s","s","i","g","n","e","d">>

AssigneeAlice ==
    <<"A","l","i","c","e">>

\* .fields.status.name of a fetched issue.
StatusValues ==
    {StatusDone, StatusClosedUpper, StatusResolvedLower, StatusReleasePending,
     StatusReleasePendingUpper, StatusInProgress, JsonNull}

\* .fields.assignee.displayName of a fetched issue.
AssigneeValues ==
    {AssigneeAlice, JsonNull}

\* jq -r '<path> // "<default>"'
JqAlternative(value, default) ==
    IF value = JsonNull THEN default ELSE value

\* HTTP status codes of GET issue, POST comment and POST transition.
GetIssueCodes ==
    {<<"2","0","0">>, <<"4","0","4">>, <<"5","0","0">>}

CommentCodes ==
    {<<"2","0","1">>, <<"2","0","0">>, <<"5","0","0">>}

TransitionCodes ==
    {<<"2","0","4">>, <<"2","0","0">>, <<"4","0","0">>}

(***************************************************************************)
(* Status classification of process_issue                                  *)
(***************************************************************************)
LowerDone ==
    <<"d","o","n","e">>

LowerClosed ==
    <<"c","l","o","s","e","d">>

LowerResolved ==
    <<"r","e","s","o","l","v","e","d">>

LowerReleasePending ==
    <<"r","e","l","e","a","s","e"," ","p","e","n","d","i","n","g">>

\* Faulty variant of IsAlreadyClosed: "resolved" is not taken as closed.
IsAlreadyClosed_noResolved(status_lower) ==
    status_lower \in {LowerDone, LowerClosed}

IsAlreadyClosed(status_lower) ==
    status_lower \in {LowerDone, LowerClosed, LowerResolved}

\* Faulty variant of IsReleasePending: every open issue is closed.
IsReleasePending_any(status_lower) ==
    TRUE

IsReleasePending(status_lower) ==
    status_lower = LowerReleasePending

\* Faulty variant of Classify: --dry-run is not looked at.
Classify_ignoreDryRun(code, status, dryRun) ==
    IF code # <<"2","0","0">> THEN "failed"
    ELSE IF IsAlreadyClosed(tr_lower(status)) THEN "already_closed"
    ELSE IF ~IsReleasePending(tr_lower(status)) THEN "not_release_pending"
    ELSE "eligible"

\* Faulty variant of Classify: the dry-run branch returns without counting.
Classify_dryRunUncounted(code, status, dryRun) ==
    IF code # <<"2","0","0">> THEN "failed"
    ELSE IF IsAlreadyClosed(tr_lower(status)) THEN "already_closed"
    ELSE IF ~IsReleasePending(tr_lower(status)) THEN "not_release_pending"
    ELSE IF dryRun THEN "return"
    ELSE "eligible"

\* The branch process_issue takes for the answer of get_issue.
Classify(code, status, dryRun) ==
    IF code # <<"2","0","0">> THEN "failed"
    ELSE IF IsAlreadyClosed(tr_lower(status)) THEN "already_closed"
    ELSE IF ~IsReleasePending(tr_lower(status)) THEN "not_release_pending"
    ELSE IF dryRun THEN "dry_run"
    ELSE "eligible"

(***************************************************************************)
(* transition_issue: the choice of the transition                          *)
(***************************************************************************)
TransitionPreference ==
    << <<"D","o","n","e">>,
       <<"C","l","o","s","e">>,
       <<"C","l","o","s","e","d">>,
       <<"R","e","s","o","l","v","e">>,
       <<"R","e","s","o","l","v","e","d">> >>

IdNull ==
    <<"n","u","l","l">>

\* jq -r ".transitions[] | select(.name | ascii_downcase == name_lower) | .id"
\* | head -n1
FirstIdNamed(list, name_lower) ==
    LET hits == SelectSeq(list, LAMBDA t : tr_lower(t.name) = name_lower)
    IN  IF hits = <<>> THEN <<>> ELSE hits[1].id

\* Faulty variant of SelectTransition: the first transition of the tracker's
\* list that bears any name of the preference list.
SelectTransition_trackerOrder(list, k) ==
    LET lowered == {tr_lower(TransitionPreference[n]) :
                        n \in 1..Len(TransitionPreference)}
        hits    == SelectSeq(list, LAMBDA t : tr_lower(t.name) \in lowered)
    IN  IF hits = <<>> THEN [id |-> <<>>, name |-> <<>>]
        ELSE [id |-> hits[1].id, name |-> hits[1].name]

\* The for loop over the preference list from its k-th name on: the id and the
\* name it breaks with, or an empty id when no name is found.
RECURSIVE SelectTransition(_, _)
SelectTransition(list, k) ==
    IF k > Len(TransitionPreference) THEN [id |-> <<>>, name |-> <<>>]
    ELSE LET id == FirstIdNamed(list, tr_lower(TransitionPreference[k]))
         IN  IF id # <<>> /\ id # IdNull
             THEN [id |-> id, name |-> TransitionPreference[k]]
             ELSE SelectTransition(list, k + 1)

(***************************************************************************)
(* Part II: the generator scripts (scripts/*.mjs) and scripts/utils.mjs.   *)
(* JavaScript strings are sequences of one-character strings as well.      *)
(***************************************************************************)
\* The white space that String.prototype.trim removes.
WhitespaceChars ==
    {" ", "\t", "\n", "\r"}

\* String.prototype.trim
RECURSIVE trim(_)
trim(s) ==
    IF s = <<>> THEN s
    ELSE IF s[1] \in WhitespaceChars THEN trim(Tail(s))
    ELSE IF s[Len(s)] \in WhitespaceChars THEN trim(SubSeq(s, 1, Len(s) - 1))
    ELSE s

\* String.prototype.toLowerCase
toLowerCase(s) ==
    [k \in 1..Len(s) |-> ToLowerChar(s[k])]

\* The decimal digits of a natural number, as a template literal prints it.
RECURSIVE DecimalString(_)
DecimalString(n) ==
    IF n < 10 THEN <<DigitChars[n + 1]>>
    ELSE Append(DecimalString(n \div 10), DigitChars[(n % 10) + 1])

\* The longest prefix of s made of decimal digits.
RECURSIVE DigitPrefix(_)
DigitPrefix(s) ==
    IF s = <<>> \/ ~IsDigit(s[1]) THEN <<>>
    ELSE <<s[1]>> \o DigitPrefix(Tail(s))

\* parseInt(s, 10): leading white space, an optional sign, then the longest
\* run of digits; NaN when there is no digit.
parseInt(s) ==
    LET t      == trim(s)
        signed == t # <<>> /\ t[1] \in {"+", "-"}
        digits == DigitPrefix(IF signed THEN Tail(t) ELSE t)
    IN  IF digits = <<>> THEN [nan |-> TRUE, value |-> 0]
        ELSE [nan   |-> FALSE,
              value |-> IF signed /\ t[1] = "-"
                        THEN 0 - DecimalValue(digits)
                        ELSE DecimalValue(digits)]

(***************************************************************************)
(* scripts/utils.mjs                                                       *)
(***************************************************************************)
DELAY ==
    10000

NsDefault ==
    <<"d","e","f","a","u","l","t">>

AnswerY ==
    <<"y">>

\* Faulty variant of getCurrentNamespace: no default for an empty output.
getCurrentNamespace_noFallback(result) ==
    IF result.failed THEN NsDefault ELSE trim(result.stdout)

\* getCurrentNamespace, for a kubectl query that failed or printed stdout.
getCurrentNamespace(result) ==
    IF result.failed THEN NsDefault
    ELSE IF trim(result.stdout) = <<>> THEN NsDefault
    ELSE trim(result.stdout)

\* Whether promptForNamespace asks for another namespace.
AsksNewNamespace(useCurrentNs) ==
    toLowerCase(useCurrentNs) # AnswerY

\* promptForNamespace, for the answers to its one or two questions.
promptForNamespace(currentNs, useCurrentNs, newNs) ==
    IF toLowerCase(useCurrentNs) = AnswerY THEN currentNs ELSE trim(newNs)

\* The threshold of checkSafetyThresholds.
SafetyThreshold ==
    10

\* Faulty variant of SafetyQuestionAsked: the question is asked from 10 on.
SafetyQuestionAsked_fromTen(numberOfComponents) ==
    numberOfComponents >= SafetyThreshold

\* Whether checkSafetyThresholds asks its question.
SafetyQuestionAsked(numberOfComponents) ==
    numberOfComponents > SafetyThreshold

\* Faulty variant of checkSafetyThresholds: any answer that begins with y.
checkSafetyThresholds_prefix(numberOfComponents, proceed) ==
    IF numberOfComponents > SafetyThreshold
    THEN proceed # <<>> /\ ToLowerChar(proceed[1]) = "y"
    ELSE TRUE

\* checkSafetyThresholds, for the answer to its question.
checkSafetyThresholds(numberOfComponents, proceed) ==
    IF numberOfComponents > SafetyThreshold
    THEN toLowerCase(proceed) = AnswerY
    ELSE TRUE

\* The denominator of the outcomes of Math.random(): r stands for r/RandomGrid.
RandomGrid ==
    72

\* Math.random(): the next outcome of the generator, and the generator after it.
NextRandom(rng) ==
    rng.stream[(rng.pos % Len(rng.stream)) + 1]

Advance(rng) ==
    [rng EXCEPT !.pos = @ + 1]

\* Math.floor(Math.random() * n), for the outcome r.
FloorScaled(r, n) ==
    (r * n) \div RandomGrid

\* const chars = "abcdefghijklmnopqrstuvwxyz0123456789"
RandomChars ==
    LowerChars \o DigitChars

DefaultSuffixMin ==
    0

DefaultSuffixMax ==
    40

\* Faulty variant of RandomLength: the length is drawn from 0..max.
RandomLength_fromZero(r, min, max) ==
    FloorScaled(r, max + 1)

\* Math.floor(Math.random() * (max - min + 1)) + min
RandomLength(r, min, max) ==
    FloorScaled(r, max - min + 1) + min

\* Array.from({ length }, () => chars[...]).join(""): n characters, each from
\* one more outcome of the generator.
RECURSIVE RandomString(_, _)
RandomString(rng, n) ==
    IF n = 0 THEN <<>>
    ELSE <<RandomChars[FloorScaled(NextRandom(rng), Len(RandomChars)) + 1]>>
             \o RandomString(Advance(rng), n - 1)

\* appendRandomString({ min, max }): the string and the generator after it.
appendRandomString(min, max, rng) ==
    LET length == RandomLength(NextRandom(rng), min, max)
    IN  [out |-> RandomString(Advance(rng), length),
         rng |-> [rng EXCEPT !.pos = @ + 1 + length]]

\* The delay of createResource in milliseconds, for the outcome r, in whole
\* milliseconds: Math.random() * (DELAY * 2 - DELAY) + 10.
createDelay(r) ==
    (r * (DELAY * 2 - DELAY)) \div RandomGrid + 10

(***************************************************************************)
(* JavaScript objects. The heap is a sequence of objects and arrays; the   *)
(* address of one is its index. A property holds a string, null or a       *)
(* reference. A JSON text is the set of its entries: one per object,       *)
(* array, string and null, each with its path from the root.               *)
(***************************************************************************)
StrValue(s) ==
    [k |-> "string", s |-> s, r |-> 0]

RefValue(a) ==
    [k |-> "ref", s |-> <<>>, r |-> a]

IsContainer(e) ==
    e.k \in {"object", "array"}

\* JSON.stringify of the object at address a, its entries put below prefix.
RECURSIVE stringify(_, _, _)
stringify(h, a, prefix) ==
    {[path |-> prefix, k |-> h[a].kind, s |-> <<>>]}
        \cup UNION {LET v == h[a].fields[f]
                    IN  IF v.k = "ref"
                        THEN stringify(h, v.r, Append(prefix, f))
                        ELSE {[path |-> Append(prefix, f), k |-> v.k, s |-> v.s]} :
                    f \in DOMAIN h[a].fields}

\* The addresses n, n+1, ... given to the members of S.
RECURSIVE Number(_, _)
Number(S, n) ==
    IF S = {} THEN [p \in {} |-> 0]
    ELSE LET p == CHOOSE q \in S : TRUE
         IN  (p :> n) @@ Number(S \ {p}, n + 1)

\* JSON.parse: a new object or array for every container entry of the text;
\* the heap with them, and the address of the root.
parse(h, doc) ==
    LET paths       == {e.path : e \in {d \in doc : IsContainer(d)}}
        addr        == Number(paths, Len(h) + 1)
        Children(p) == {e \in doc : /\ Len(e.path) = Len(p) + 1
                                    /\ SubSeq(e.path, 1, Len(p)) = p}
        Cell(p)     ==
            [kind   |-> (CHOOSE e \in doc : e.path = p).k,
             fields |-> [f \in {e.path[Len(e.path)] : e \in Children(p)} |->
                            LET e == CHOOSE c \in Children(p) :
                                         c.path[Len(c.path)] = f
                            IN  IF IsContainer(e) THEN RefValue(addr[e.path])
                                ELSE [k |-> e.k, s |-> e.s, r |-> 0]]]
    IN  [heap |-> [a \in 1..(Len(h) + Cardinality(paths)) |->
                      IF a <= Len(h) THEN h[a]
                      ELSE Cell(CHOOSE p \in paths : addr[p] = a)],
         root |-> addr[<<>>]]

\* Faulty variant of DeepCopy: { ...object }, a new root whose properties
\* refer to the objects of the original.
DeepCopy_spread(h, a) ==
    [heap |-> Append(h, h[a]), root |-> Len(h) + 1]

\* JSON.parse(JSON.stringify(object))
DeepCopy(h, a) ==
    parse(h, stringify(h, a, <<>>))

\* The address of the object that holds the last name of path, from a.
RECURSIVE Owner(_, _, _)
Owner(h, a, path) ==
    IF Len(path) = 1 THEN a
    ELSE Owner(h, h[a].fields[Head(path)].r, Tail(path))

\* object.p1.p2 ... = value
SetField(h, a, path, value) ==
    LET o == Owner(h, a, path)
    IN  [h EXCEPT ![o].fields = (path[Len(path)] :> StrValue(value)) @@ @]

\* object.p1.p2 ...
GetField(h, a, path) ==
    h[Owner(h, a, path)].fields[path[Len(path)]].s

\* The assignments of writes, a sequence of <<path, value>>, in order.
RECURSIVE SetFields(_, _, _)
SetFields(h, a, writes) ==
    IF writes = <<>> THEN h
    ELSE SetFields(SetField(h, a, writes[1][1], writes[1][2]), a, Tail(writes))

(***************************************************************************)
(* The scripts: their constants, templates and names                       *)
(***************************************************************************)
NoOfApplications ==
    20

NumberOfComponent ==
    25

NoOfIntegrationTest ==
    3

DefaultNumberOfReleases ==
    5

DefaultCount ==
    25

\* applications: const baseApplicationConfig, as the entries of its JSON text.
baseApplicationConfig ==
    { [path |-> <<>>, k |-> "object",
       s |-> <<>>],
      [path |-> <<"apiVersion">>, k |-> "string",
       s |-> <<"a","p","p","s","t","u","d","i","o",".","r","e","d","h","a","t",".",
               "c","o","m","/","v","1","a","l","p","h","a","1">>],
      [path |-> <<"kind">>, k |-> "string",
       s |-> <<"A","p","p","l","i","c","a","t","i","o","n">>],
      [path |-> <<"metadata">>, k |-> "object",
       s |-> <<>>],
      [path |-> <<"metadata","name">>, k |-> "string",
       s |-> <<"t","e","s","t","-","a","p","p","l","i","c","a","t","i","o","n","-",
               "n","-","c","o","m","p","o","n","e","n","t","s">>],
      [path |-> <<"metadata","namespace">>, k |-> "string",
       s |-> <<"N","A","M","E","S","P","A","C","E">>],
      [path |-> <<"metadata","annotations">>, k |-> "object",
       s |-> <<>>],
      [path |-> <<"metadata","annotations","application.thumbnail">>, k |-> "string",
       s |-> <<"9">>],
      [path |-> <<"spec">>, k |-> "object",
       s |-> <<>>],
      [path |-> <<"spec","displayName">>, k |-> "string",
       s |-> <<"T","e","s","t","i","n","g"," ","A","p","p","l","i","c","a","t","i",
               "o","n"," ","(","1","0","0"," ","c","o","m","p","o","n","e","n","t",
               "s",")">>] }

\* components: const baseComponentConfig
baseComponentConfig ==
    { [path |-> <<>>, k |-> "object",
       s |-> <<>>],
      [path |-> <<"apiVersion">>, k |-> "string",
       s |-> <<"a","p","p","s","t","u","d","i","o",".","r","e","d","h","a","t",".",
               "c","o","m","/","v","1","a","l","p","h","a","1">>],
      [path |-> <<"kind">>, k |-> "string",
       s |-> <<"C","o","m","p","o","n","e","n","t">>],
      [path |-> <<"metadata">>, k |-> "object",
       s |-> <<>>],
      [path |-> <<"metadata","annotations">>, k |-> "object",
       s |-> <<>>],
      [path |-> <<"metadata","annotations","build.appstudio.openshift.io/pipeline">>, k |-> "string",
       s |-> <<"{","\"","n","a","m","e","\"",":","\"","d","o","c","k","e","r","-","b",
               "u","i","l","d","\"",",","\"","b","u","n","d","l","e","\"",":","\"","l",
               "a","t","e","s","t","\"","}">>],
      [path |-> <<"metadata","annotations","build.appstudio.openshift.io/request">>, k |-> "string",
       s |-> <<"c","o","n","f","i","g","u","r","e","-","p","a","c">>],
      [path |-> <<"metadata","annotations","image.redhat.com/generate">>, k |-> "string",
       s |-> <<"{","\"","v","i","s","i","b","i","l","i","t","y","\"",":"," ","\"","p",
               "u","b","l","i","c","\"","}">>],
      [path |-> <<"metadata","name">>, k |-> "string",
       s |-> <<"C","O","M","P","O","N","E","N","T","_","M","E","T","A","D","A","T",
               "A","_","N","A","M","E","_","P","L","A","C","E","H","O","L","D","E",
               "R">>],
      [path |-> <<"spec">>, k |-> "object",
       s |-> <<>>],
      [path |-> <<"spec","componentName">>, k |-> "string",
       s |-> <<"C","O","M","P","O","N","E","N","T","_","N","A","M","E","_","P","L",
               "A","C","E","H","O","L","D","E","R">>],
      [path |-> <<"spec","application">>, k |-> "string",
       s |-> <<"t","e","s","t","-","a","p","p","l","i","c","a","t","i","o","n","-",
               "n","-","c","o","m","p","o","n","e","n","t","s">>],
      [path |-> <<"spec","source">>, k |-> "object",
       s |-> <<>>],
      [path |-> <<"spec","source","git">>, k |-> "object",
       s |-> <<>>],
      [path |-> <<"spec","source","git","url">>, k |-> "string",
       s |-> <<"h","t","t","p","s",":","/","/","g","i","t","h","u","b",".","c","o",
               "m","/","s","a","h","i","l","1","4","3","/","d","e","v","f","i","l",
               "e","-","s","a","m","p","l","e","-","c","o","d","e","-","w","i","t",
               "h","-","q","u","a","r","k","u","s">>] }

\* integration tests: const baseIT
baseIT ==
    { [path |-> <<>>, k |-> "object",
       s |-> <<>>],
      [path |-> <<"apiVersion">>, k |-> "string",
       s |-> <<"a","p","p","s","t","u","d","i","o",".","r","e","d","h","a","t",".",
               "c","o","m","/","v","1","b","e","t","a","1">>],
      [path |-> <<"kind">>, k |-> "string",
       s |-> <<"I","n","t","e","g","r","a","t","i","o","n","T","e","s","t","S","c",
               "e","n","a","r","i","o">>],
      [path |-> <<"metadata">>, k |-> "object",
       s |-> <<>>],
      [path |-> <<"metadata","name">>, k |-> "string",
       s |-> <<"a","p","p","l","i","c","a","t","i","o","n","-","2","-","e","n","t",
               "e","r","p","r","i","s","e","-","c","o","n","t","r","a","c","t">>],
      [path |-> <<"metadata","annotations">>, k |-> "object",
       s |-> <<>>],
      [path |-> <<"metadata","annotations","test.appstudio.openshift.io/kind">>, k |-> "string",
       s |-> <<"e","n","t","e","r","p","r","i","s","e","-","c","o","n","t","r","a",
               "c","t">>],
      [path |-> <<"spec">>, k |-> "object",
       s |-> <<>>],
      [path |-> <<"spec","application">>, k |-> "string",
       s |-> <<"t","e","s","t","-","a","p","p","l","i","c","a","t","i","o","n","-",
               "n","-","c","o","m","p","o","n","e","n","t","s">>],
      [path |-> <<"spec","resolverRef">>, k |-> "object",
       s |-> <<>>],
      [path |-> <<"spec","resolverRef","resolver">>, k |-> "string",
       s |-> <<"g","i","t">>],
      [path |-> <<"spec","resolverRef","params">>, k |-> "array",
       s |-> <<>>],
      [path |-> <<"spec","resolverRef","params","0">>, k |-> "object",
       s |-> <<>>],
      [path |-> <<"spec","resolverRef","params","0","name">>, k |-> "string",
       s |-> <<"u","r","l">>],
      [path |-> <<"spec","resolverRef","params","0","value">>, k |-> "string",
       s |-> <<"h","t","t","p","s",":","/","/","g","i","t","h","u","b",".","c","o",
               "m","/","k","o","n","f","l","u","x","-","c","i","/","b","u","i","l",
               "d","-","d","e","f","i","n","i","t","i","o","n","s">>],
      [path |-> <<"spec","resolverRef","params","1">>, k |-> "object",
       s |-> <<>>],
      [path |-> <<"spec","resolverRef","params","1","name">>, k |-> "string",
       s |-> <<"r","e","v","i","s","i","o","n">>],
      [path |-> <<"spec","resolverRef","params","1","value">>, k |-> "string",
       s |-> <<"m","a","i","n">>],
      [path |-> <<"spec","resolverRef","params","2">>, k |-> "object",
       s |-> <<>>],
      [path |-> <<"spec","resolverRef","params","2","name">>, k |-> "string",
       s |-> <<"p","a","t","h","I","n","R","e","p","o">>],
      [path |-> <<"spec","resolverRef","params","2","value">>, k |-> "string",
       s |-> <<"p","i","p","e","l","i","n","e","s","/","e","n","t","e","r","p","r",
               "i","s","e","-","c","o","n","t","r","a","c","t",".","y","a","m","l">>],
      [path |-> <<"spec","params">>, k |-> "null",
       s |-> <<>>],
      [path |-> <<"spec","contexts">>, k |-> "array",
       s |-> <<>>],
      [path |-> <<"spec","contexts","0">>, k |-> "object",
       s |-> <<>>],
      [path |-> <<"spec","contexts","0","name">>, k |-> "string",
       s |-> <<"a","p","p","l","i","c","a","t","i","o","n">>],
      [path |-> <<"spec","contexts","0","description">>, k |-> "string",
       s |-> <<"e","x","e","c","u","t","e"," ","t","h","e"," ","i","n","t","e","g",
               "r","a","t","i","o","n"," ","t","e","s","t"," ","i","n"," ","a","l",
               "l"," ","c","a","s","e","s"," ","-"," ","t","h","i","s"," ","w","o",
               "u","l","d"," ","b","e"," ","t","h","e"," ","d","e","f","a","u","l",
               "t"," ","s","t","a","t","e">>] }

\* releases: const baseReleaseConfig
baseReleaseConfig ==
    { [path |-> <<>>, k |-> "object",
       s |-> <<>>],
      [path |-> <<"apiVersion">>, k |-> "string",
       s |-> <<"a","p","p","s","t","u","d","i","o",".","r","e","d","h","a","t",".",
               "c","o","m","/","v","1","a","l","p","h","a","1">>],
      [path |-> <<"kind">>, k |-> "string",
       s |-> <<"R","e","l","e","a","s","e">>],
      [path |-> <<"metadata">>, k |-> "object",
       s |-> <<>>],
      [path |-> <<"metadata","namespace">>, k |-> "string",
       s |-> <<"N","A","M","E","S","P","A","C","E">>],
      [path |-> <<"metadata","labels">>, k |-> "object",
       s |-> <<>>],
      [path |-> <<"spec">>, k |-> "object",
       s |-> <<>>],
      [path |-> <<"spec","releasePlan">>, k |-> "string",
       s |-> <<"R","E","L","E","A","S","E","_","P","L","A","N","_","P","L","A","C",
               "E","H","O","L","D","E","R">>],
      [path |-> <<"spec","snapshot">>, k |-> "string",
       s |-> <<"S","N","A","P","S","H","O","T","_","P","L","A","C","E","H","O","L",
               "D","E","R">>],
      [path |-> <<"spec","data">>, k |-> "object",
       s |-> <<>>],
      [path |-> <<"spec","data","releaseNotes">>, k |-> "object",
       s |-> <<>>],
      [path |-> <<"spec","data","releaseNotes","references">>, k |-> "string",
       s |-> <<>>],
      [path |-> <<"spec","data","releaseNotes","synopsis">>, k |-> "string",
       s |-> <<>>],
      [path |-> <<"spec","data","releaseNotes","topic">>, k |-> "string",
       s |-> <<>>],
      [path |-> <<"spec","data","releaseNotes","description">>, k |-> "string",
       s |-> <<>>] }

\* The scripts. "applications" is the applications script that imports the
\* utilities; "applications_mjs" is scripts/applications.mjs, which calls
\* checkSafetyThresholds(NumberOfComponent) with neither name defined.
TemplateScripts ==
    {"applications", "components", "integrationtest", "releases"}

Scripts ==
    TemplateScripts \cup {"mock_components", "applications_mjs"}

\* The template of a script.
BaseConfig(s) ==
    CASE s = "applications"    -> baseApplicationConfig
      [] s = "components"      -> baseComponentConfig
      [] s = "integrationtest" -> baseIT
      [] s = "releases"        -> baseReleaseConfig

\* The count that a script without a count question gives to
\* checkSafetyThresholds and prints in its "Creating N ..." message.
FixedCount(s) ==
    CASE s = "applications"    -> NoOfApplications
      [] s = "components"      -> NumberOfComponent
      [] s = "integrationtest" -> NoOfIntegrationTest

\* for (let i = first; i <= last; i++)
FirstIndex(s) ==
    CASE s = "applications"    -> 11
      [] s = "components"      -> 26
      [] s = "integrationtest" -> 5
      [] OTHER                 -> 1

LastIndex(s, n) ==
    CASE s = "applications"    -> NoOfApplications
      [] s = "components"      -> 25 + NumberOfComponent
      [] s = "integrationtest" -> 5 + NoOfIntegrationTest
      [] OTHER                 -> n

Dash ==
    <<"-">>

PrefixApplication ==
    <<"t","e","s","t","-","a","p","p","l","i","c","a","t","i","o","n","-">>

PrefixComponent ==
    <<"d","e","v","f","i","l","e","-","s","a","m","p","l","e","-","c","o","d","e","-","w","i","t","h","-","q","u","a","r","k","u","s","-","l","o","n","g","e","r","-","n","a","m","e","-","n","e","w","-">>

PrefixIntegration ==
    <<"t","e","s","t","-","i","n","t","e","g","r","a","t","i","o","n","-">>

PrefixMock ==
    <<"u","i","-","m","o","c","k","-","c","o","m","p","-">>

SynopsisHead ==
    <<"A","u","t","o","m","a","t","e","d"," ","r","e","l","e","a","s","e"," ">>

SynopsisOf ==
    <<" ","o","f"," ">>

ReleaseDescription ==
    <<"G","e","n","e","r","a","t","e","d"," ","r","e","l","e","a","s","e"," ","u","s","i","n","g"," ","k","f","l","u","x","-","s","c","r","i","p","t","s">>

\* Whether the name of a config of the script ends in a random suffix, and
\* the bounds given to appendRandomString for it.
HasSuffix(s) ==
    s \in {"applications", "releases", "mock_components"}

SuffixMin(s) ==
    IF s = "applications" THEN DefaultSuffixMin ELSE 5

SuffixMax(s) ==
    IF s = "applications" THEN DefaultSuffixMax ELSE 8

\* Faulty variant of ConfigName: the loop index is left out of the name.
ConfigName_noIndex(s, i, plan, suffix) ==
    CASE s = "applications"    -> PrefixApplication \o suffix
      [] s = "components"      -> PrefixComponent
      [] s = "integrationtest" -> PrefixIntegration
      [] s = "releases"        -> plan \o Dash \o suffix
      [] s = "mock_components" -> PrefixMock \o suffix

\* metadata.name of the config of loop index i.
ConfigName(s, i, plan, suffix) ==
    CASE s = "applications"    ->
             PrefixApplication \o DecimalString(i) \o Dash \o suffix
      [] s = "components"      -> PrefixComponent \o DecimalString(i)
      [] s = "integrationtest" -> PrefixIntegration \o DecimalString(i)
      [] s = "releases"        ->
             plan \o Dash \o DecimalString(i) \o Dash \o suffix
      [] s = "mock_components" ->
             PrefixMock \o DecimalString(i) \o Dash \o suffix

PathName ==
    <<"metadata", "name">>

PathNamespace ==
    <<"metadata", "namespace">>

PathSynopsis ==
    <<"spec", "data", "releaseNotes", "synopsis">>

\* Faulty variant of NamespaceWrite: the placeholder of the template is written.
NamespaceWrite_placeholder(ns) ==
    <<PathNamespace, <<"N","A","M","E","S","P","A","C","E">>>>

\* config.metadata["namespace"] = targetNs
NamespaceWrite(ns) ==
    <<PathNamespace, ns>>

\* The assignments to the copy of the template, in the order of the loop body.
ConfigWrites(s, i, n, name, ns, plan, snap) ==
    CASE s = "applications"    ->
             << <<PathName, name>>, NamespaceWrite(ns),
                <<<<"spec", "displayName">>,
                  PrefixApplication \o DecimalString(i)>> >>
      [] s = "components"      ->
             << <<PathName, name>>, NamespaceWrite(ns),
                <<<<"spec", "componentName">>,
                  PrefixComponent \o DecimalString(i)>> >>
      [] s = "integrationtest" ->
             << <<PathName, name>>, NamespaceWrite(ns) >>
      [] s = "releases"        ->
             << <<PathName, name>>, NamespaceWrite(ns),
                <<<<"spec", "releasePlan">>, plan>>,
                <<<<"spec", "snapshot">>, snap>>,
                <<PathSynopsis,
                  SynopsisHead \o DecimalString(i) \o SynopsisOf
                      \o DecimalString(n)>>,
                <<<<"spec", "data", "releaseNotes", "description">>,
                  ReleaseDescription>> >>

(***************************************************************************)
(* The state of one run of close_issues.sh                                 *)
(***************************************************************************)
VARIABLES
    argv,                       \* the command line
    hasJq, hasCurl,             \* command -v: "unchecked", "present", "missing"
    fileExists,                 \* [[ -f "$CHANGELOG_FILE" ]]: "unchecked", "yes", "no"
    changelogText,              \* the content of the changelog, once read
    warnings,                   \* the keys extract_jira_issues warned about
    helpPrinted,                \* print_help ran
    CHANGELOG_FILE, DRY_RUN, VERSION, JIRA_URL, JIRA_API_TOKEN,
    RATE_LIMIT_SECONDS,
    SUCCESS_COUNT, ALREADY_CLOSED_COUNT, NOT_RELEASE_PENDING_COUNT,
    SKIPPED_COUNT, FAILED_COUNT,
    NON_RELEASE_PENDING_ISSUES,
    issues,                     \* the lines of $issues in main
    processed,                  \* how many of them process_issue has returned for
    pc,                         \* where the script is
    exitStatus, exitAt,         \* the exit status and the place of the exit
    log                         \* the sleeps and HTTP calls made, in order

probeVars ==
    <<hasJq, hasCurl, fileExists, changelogText, warnings, helpPrinted>>

cfgVars ==
    <<CHANGELOG_FILE, DRY_RUN, VERSION, JIRA_URL, JIRA_API_TOKEN,
      RATE_LIMIT_SECONDS>>

countVars ==
    <<SUCCESS_COUNT, ALREADY_CLOSED_COUNT, NOT_RELEASE_PENDING_COUNT,
      SKIPPED_COUNT, FAILED_COUNT, NON_RELEASE_PENDING_ISSUES>>

loopVars ==
    <<issues, processed>>

closeVars ==
    <<argv, probeVars, cfgVars, countVars, loopVars, pc, exitStatus, exitAt,
      log>>

(***************************************************************************)
(* The state of one run of a generator script                              *)
(***************************************************************************)
VARIABLES
    script,                     \* which script runs
    position,                   \* where the script is
    count,                      \* the count given to checkSafetyThresholds
    populateStatus,             \* mock components: promptForPopulateStatus()
    releasePlan, snapshot,      \* releases: the answers, trimmed
    currentNs, targetNs,        \* getCurrentNamespace(), promptForNamespace()
    idx,                        \* the loop variable i
    heap,                       \* the objects: the template and the configs
    allConfigs,                 \* the addresses of the configs pushed
    applied,                    \* how many of them the apply loop has passed
    rng,                        \* Math.random: its outcomes and its position
    suffixes,                   \* the calls of appendRandomString so far
    trace,                      \* questions, kubectl calls, sleeps and prints
    exitCode                    \* the exit status, -1 while the script runs

inputVars ==
    <<count, populateStatus, releasePlan, snapshot, currentNs, targetNs>>

loopVarsGen ==
    <<idx, heap, allConfigs, applied, rng, suffixes>>

genVars ==
    <<script, position, inputVars, loopVarsGen, trace, exitCode>>

\* No generator script runs.
GenIdle ==
    /\ script = "none"
    /\ position = "idle"
    /\ count = 0
    /\ populateStatus = FALSE
    /\ releasePlan = <<>>
    /\ snapshot = <<>>
    /\ currentNs = <<>>
    /\ targetNs = <<>>
    /\ idx = 0
    /\ heap = <<>>
    /\ allConfigs = <<>>
    /\ applied = 0
    /\ rng = [stream |-> <<0>>, pos |-> 0]
    /\ suffixes = <<>>
    /\ trace = <<>>
    /\ exitCode = -1

(***************************************************************************)
(* makeSpec called on its own                                              *)
(***************************************************************************)
VARIABLES
    madeSpecs                   \* the calls of makeSpec: index and result

MadeIdle ==
    madeSpecs = <<>>

(***************************************************************************)
(* The state of one run of create-kui-pr.sh                                *)
(***************************************************************************)
VARIABLES
    kuiVersion,                 \* "current", or "earlier" for lines 1-164
    kuiPc,                      \* where the run is
    kuiEnv,                     \* DRY_RUN and GITHUB_OUTPUT of the environment
    BASE_SHA, TARGET_SHA,       \* the SHAs read, <<>> before
    upstreamClone,              \* the two files of the clone that is read
    forkFile,                   \* the production file of the clone that is changed
    kuiLog,                     \* the commands run and the messages that matter
    githubOutput,               \* the keys appended to $GITHUB_OUTPUT
    kuiExit                     \* the exit status, -1 while the script runs

kuiVars ==
    <<kuiVersion, kuiPc, kuiEnv, BASE_SHA, TARGET_SHA, upstreamClone, forkFile,
      kuiLog, githubOutput, kuiExit>>

NoFile ==
    [exists |-> FALSE, lines |-> <<>>]

\* create-kui-pr.sh does not run.
KuiIdle ==
    /\ kuiVersion = "none"
    /\ kuiPc = "idle"
    /\ kuiEnv = [DRY_RUN |-> "", GITHUB_OUTPUT |-> ""]
    /\ BASE_SHA = <<>>
    /\ TARGET_SHA = <<>>
    /\ upstreamClone = [prod |-> NoFile, stg |-> NoFile]
    /\ forkFile = NoFile
    /\ kuiLog = <<>>
    /\ githubOutput = <<>>
    /\ kuiExit = -1

otherVars ==
    <<madeSpecs, kuiVars>>

OtherIdle ==
    /\ MadeIdle
    /\ KuiIdle

vars ==
    <<closeVars, genVars, otherVars>>

(***************************************************************************)
(* Inputs: command lines, environment, changelogs, tracker answers         *)
(***************************************************************************)
VersionGood ==
    <<"v","1",".","2",".","3">>

VersionBad ==
    <<"v","1"," ","2">>

PathTraversal ==
    <<".",".","/","c","h","a","n","g","e","l","o","g",".","m","d">>

UrlNoScheme ==
    <<"i","s","s","u","e","s",".","r","e","d","h","a","t",".","c","o","m">>

TokenSet ==
    <<"t","o","k">>

\* An option with its value, or a single word of the command line.
ArgGroups ==
    { <<OptDryRun>>, <<OptHelp>>, <<OptH>>,
      <<OptVersion, VersionGood>>, <<OptVersion, VersionBad>>, <<OptVersion>>,
      <<OptChangelog, PathTraversal>>,
      <<OptRateLimit, <<"0">> >>, <<OptRateLimit, <<"x">> >>,
      <<OptJiraUrl, UrlNoScheme>>,
      <<<<"-","x">>>>, <<<<"e","x","t","r","a">>>> }

\* The greatest number of option groups on a command line.
MaxArgs ==
    2

RECURSIVE ArgvsOf(_)
ArgvsOf(n) ==
    IF n = 0 THEN {<<>>}
    ELSE LET shorter == ArgvsOf(n - 1)
         IN  shorter \cup {a \o g : a \in shorter, g \in ArgGroups}

Argvs ==
    ArgvsOf(MaxArgs)

\* The command lines of the runs of the per-issue loop.
ArgvSamples ==
    { <<>>, <<OptDryRun>>, <<OptVersion, VersionGood>>,
      <<OptDryRun, OptVersion, VersionGood>>,
      <<OptRateLimit, <<"2">>, OptVersion, VersionGood>>,
      <<OptHelp>>, <<OptVersion>>, <<OptChangelog, PathTraversal>> }

\* Values of the environment variables; <<>> is unset or empty.
EnvJiraUrls ==
    {<<>>, UrlNoScheme}

EnvTokens ==
    {<<>>, TokenSet}

EnvRateLimits ==
    {<<>>, <<"0">>, <<"x">>}

ChangelogScenario ==
    <<"F","i","x","e","s"," ","K","F","L","U","X","U","I","-","1","2","3"," ",
      "a","n","d"," ","R","O","K","-","8","1","8",","," ","s","e","e"," ",
      "a","l","s","o"," ","k","f","l","u","x","u","i","-","5">>

ChangelogDuplicates ==
    <<"A","B","-","1"," ","A","-","2"," ","A","B","-","1"," ","a","b","-","3">>

ChangelogSamples ==
    {<<>>, ChangelogScenario, ChangelogDuplicates}

\* A changelog of one key of 50 characters and one of 51.
ChangelogLongKeys ==
    <<"A","B","-">> \o Rep("1", MaxKeyLen - 3) \o <<" ">>
        \o <<"C","D","-">> \o Rep("2", MaxKeyLen - 2)

\* The greatest length of a changelog of the exhaustive set.
MaxTextLen ==
    5

TextAlphabet ==
    {"A", "7", "-", " ", "a", "_"}

RECURSIVE TextsOf(_)
TextsOf(n) ==
    IF n = 0 THEN {<<>>}
    ELSE LET shorter == TextsOf(n - 1)
         IN  shorter \cup {Append(t, c) : t \in shorter, c \in TextAlphabet}

AllTexts ==
    TextsOf(MaxTextLen) \cup ChangelogSamples \cup {ChangelogLongKeys}

\* The transitions of an issue: name and id.
TransitionNames ==
    { <<"d","o","n","e">>, <<"C","l","o","s","e">>, <<"C","L","O","S","E","D">>,
      <<"R","e","s","o","l","v","e","d">>, <<"R","e","o","p","e","n">> }

TransitionIds ==
    {<<"1","1">>, <<"2","1">>}

TransitionRecords ==
    {[name |-> n, id |-> i] : n \in TransitionNames, i \in TransitionIds}

\* The greatest number of transitions of an issue in the exhaustive set.
MaxTransitions ==
    2

RECURSIVE TransitionListsOf(_)
TransitionListsOf(n) ==
    IF n = 0 THEN {<<>>}
    ELSE LET shorter == TransitionListsOf(n - 1)
         IN  shorter \cup {Append(l, t) : l \in shorter, t \in TransitionRecords}

\* What get_transitions prints: nothing, or a document with transitions.
EmptyAnswer ==
    [empty |-> TRUE, list |-> <<>>]

AllTransitionAnswers ==
    {EmptyAnswer}
        \cup {[empty |-> FALSE, list |-> l] : l \in TransitionListsOf(MaxTransitions)}

TransitionSamples ==
    { EmptyAnswer,
      [empty |-> FALSE, list |-> <<>>],
      [empty |-> FALSE,
       list |-> <<[name |-> <<"R","e","o","p","e","n">>, id |-> <<"3","1">>]>>],
      [empty |-> FALSE,
       list |-> <<[name |-> <<"C","l","o","s","e">>, id |-> <<"2","1">>],
                  [name |-> <<"d","o","n","e">>, id |-> <<"1","1">>]>>] }

(***************************************************************************)
(* The start of the script: the defaults of lines 62-78, with JIRA_URL,    *)
(* JIRA_API_TOKEN and RATE_LIMIT_SECONDS taken from the environment.       *)
(***************************************************************************)
InitWith(argvs, envUrls, envTokens, envRates) ==
    /\ argv \in argvs
    /\ hasJq = "unchecked"
    /\ hasCurl = "unchecked"
    /\ fileExists = "unchecked"
    /\ changelogText = <<>>
    /\ warnings = <<>>
    /\ helpPrinted = FALSE
    /\ CHANGELOG_FILE = DefaultChangelogFile
    /\ DRY_RUN = FALSE
    /\ VERSION = <<>>
    /\ \E e \in envUrls : JIRA_URL = IF e = <<>> THEN DefaultJiraUrl ELSE e
    /\ JIRA_API_TOKEN \in envTokens
    /\ \E e \in envRates :
           RATE_LIMIT_SECONDS = IF e = <<>> THEN DefaultRateLimit ELSE e
    /\ SUCCESS_COUNT = 0
    /\ ALREADY_CLOSED_COUNT = 0
    /\ NOT_RELEASE_PENDING_COUNT = 0
    /\ SKIPPED_COUNT = 0
    /\ FAILED_COUNT = 0
    /\ NON_RELEASE_PENDING_ISSUES = <<>>
    /\ issues = <<>>
    /\ processed = 0
    /\ pc = "check_dependencies"
    /\ exitStatus = 0
    /\ exitAt = "running"
    /\ log = <<>>

\* Runs with and without --dry-run, --version and a zero rate limit, and
\* runs that end at startup.
Init ==
    /\ InitWith(ArgvSamples, {<<>>}, EnvTokens, {<<>>, <<"0">>})
    /\ GenIdle
    /\ OtherIdle

\* Every command line of at most MaxArgs option groups, in every environment.
InitStartup ==
    /\ InitWith(Argvs, EnvJiraUrls, EnvTokens, EnvRateLimits)
    /\ GenIdle
    /\ OtherIdle

\* One run that closes issues and comments on them.
InitClosing ==
    /\ InitWith({<<OptVersion, VersionGood>>}, {<<>>}, {TokenSet}, {<<>>})
    /\ GenIdle
    /\ OtherIdle

\* exit <status>
Exit(status, at) ==
    /\ pc' = "exited"
    /\ exitStatus' = status
    /\ exitAt' = at

\* check_dependencies: jq, then curl.
CheckDependencies ==
    /\ pc = "check_dependencies"
    /\ \E jq \in BOOLEAN, curl \in BOOLEAN :
           /\ hasJq' = IF jq THEN "present" ELSE "missing"
           /\ hasCurl' = IF ~jq THEN "unchecked"
                         ELSE IF curl THEN "present" ELSE "missing"
           /\ IF jq /\ curl
              THEN pc' = "parse_args" /\ UNCHANGED <<exitStatus, exitAt>>
              ELSE Exit(1, "check_dependencies")
    /\ UNCHANGED <<argv, fileExists, changelogText, warnings, helpPrinted,
                   cfgVars, countVars, loopVars, log>>
    /\ UNCHANGED <<genVars, otherVars>>

\* parse_args "$@"
ParseArgs ==
    /\ pc = "parse_args"
    /\ LET g == parse_args(argv,
                    [outcome |-> "ok",
                     CHANGELOG_FILE |-> CHANGELOG_FILE,
                     DRY_RUN |-> DRY_RUN,
                     VERSION |-> VERSION,
                     JIRA_URL |-> JIRA_URL,
                     RATE_LIMIT_SECONDS |-> RATE_LIMIT_SECONDS])
       IN  /\ CHANGELOG_FILE' = g.CHANGELOG_FILE
           /\ DRY_RUN' = g.DRY_RUN
           /\ VERSION' = g.VERSION
           /\ JIRA_URL' = g.JIRA_URL
           /\ RATE_LIMIT_SECONDS' = g.RATE_LIMIT_SECONDS
           /\ helpPrinted' = (g.outcome = "help")
           /\ IF g.outcome = "ok"
              THEN pc' = "validate_inputs" /\ UNCHANGED <<exitStatus, exitAt>>
              ELSE Exit(IF g.outcome = "help" THEN 0 ELSE 1, "parse_args")
    /\ UNCHANGED <<argv, hasJq, hasCurl, fileExists, changelogText, warnings,
                   JIRA_API_TOKEN, countVars, loopVars, log>>
    /\ UNCHANGED <<genVars, otherVars>>

\* Faulty variant of InputsValid: the API token is not required.
InputsValid_noToken ==
    /\ validate_file_path(CHANGELOG_FILE)
    /\ VERSION # <<>> => validate_version(VERSION)
    /\ validate_url(JIRA_URL)
    /\ RateLimitIsInteger(RATE_LIMIT_SECONDS)

\* What validate_inputs requires, each failure being an exit 1.
InputsValid ==
    /\ validate_file_path(CHANGELOG_FILE)
    /\ VERSION # <<>> => validate_version(VERSION)
    /\ validate_url(JIRA_URL)
    /\ RateLimitIsInteger(RATE_LIMIT_SECONDS)
    /\ JIRA_API_TOKEN # <<>>

ValidateInputs ==
    /\ pc = "validate_inputs"
    /\ IF InputsValid
       THEN pc' = "extract" /\ UNCHANGED <<exitStatus, exitAt>>
       ELSE Exit(1, "validate_inputs")
    /\ UNCHANGED <<argv, probeVars, cfgVars, countVars, loopVars, log>>
    /\ UNCHANGED <<genVars, otherVars>>

\* issues=$(extract_jira_issues) and the test for an empty result, for a
\* changelog file that is missing or holds one of texts.
ExtractIssues(texts) ==
    /\ pc = "extract"
    /\ \E exists \in BOOLEAN, text \in texts :
           IF ~exists
           THEN /\ fileExists' = "no"
                /\ Exit(1, "extract_jira_issues")
                /\ UNCHANGED <<changelogText, warnings, issues>>
           ELSE /\ fileExists' = "yes"
                /\ changelogText' = text
                /\ warnings' = extract_warnings(text)
                /\ issues' = extract_jira_issues(text)
                /\ IF issues' = <<>>
                   THEN Exit(0, "no_issues")
                   ELSE pc' = "loop" /\ UNCHANGED <<exitStatus, exitAt>>
    /\ UNCHANGED <<argv, hasJq, hasCurl, helpPrinted, cfgVars, countVars,
                   processed, log>>
    /\ UNCHANGED <<genVars, otherVars>>

(***************************************************************************)
(* The per-issue loop                                                      *)
(***************************************************************************)
Call(op, key, sent, code, recv) ==
    [op |-> op, key |-> key, sent |-> sent, code |-> code, recv |-> recv]

\* Faulty variant of rate_limit: no delay at all.
rate_limit_none(seconds) ==
    <<>>

\* rate_limit: sleep when RATE_LIMIT_SECONDS is greater than 0.
rate_limit(seconds) ==
    IF DecimalValue(seconds) > 0
    THEN <<Call("sleep", <<>>, seconds, <<>>, <<>>)>>
    ELSE <<>>

CodeOk ==
    <<"2","0","0">>

\* Faulty variant of OnIssueReturn: without the "|| true", set -e ends the
\* script when process_issue returns non-zero.
OnIssueReturn_errexit(rc) ==
    IF rc = 0 THEN "loop" ELSE "errexit"

\* [[ -n "$issue_key" ]] && process_issue "$issue_key" || true: where main goes
\* when process_issue returns rc.
OnIssueReturn(rc) ==
    "loop"

\* Faulty variant of AfterEligible: the comment is never added.
AfterEligible_noComment(version) ==
    "transition"

\* if [[ -n "$VERSION" ]]: an eligible issue is commented on first.
AfterEligible(version) ==
    IF version # <<>> THEN "comment" ELSE "transition"

\* process_issue up to the dry-run test: rate_limit, get_issue, the
\* classification of the status and the counter of the branch taken.
ProcessIssue ==
    /\ pc = "loop"
    /\ processed < Len(issues)
    /\ \E code \in GetIssueCodes, st \in StatusValues, who \in AssigneeValues :
           LET issue_key == issues[processed + 1]
               valid     == validate_issue_key(issue_key)
               status    == JqAlternative(st, StatusUnknown)
               assignee  == JqAlternative(who, AssigneeUnassigned)
               branch    == IF valid THEN Classify(code, status, DRY_RUN)
                            ELSE "failed"
               get       == Call("GET_issue", issue_key, <<>>, code,
                                 IF code = CodeOk THEN <<status, assignee>>
                                 ELSE <<>>)
               rc        == IF branch = "failed" THEN 1 ELSE 0
           IN  /\ log' = log \o rate_limit(RATE_LIMIT_SECONDS)
                             \o (IF valid THEN <<get>> ELSE <<>>)
               /\ FAILED_COUNT' =
                      FAILED_COUNT + (IF branch = "failed" THEN 1 ELSE 0)
               /\ ALREADY_CLOSED_COUNT' =
                      ALREADY_CLOSED_COUNT
                          + (IF branch = "already_closed" THEN 1 ELSE 0)
               /\ NOT_RELEASE_PENDING_COUNT' =
                      NOT_RELEASE_PENDING_COUNT
                          + (IF branch = "not_release_pending" THEN 1 ELSE 0)
               /\ NON_RELEASE_PENDING_ISSUES' =
                      IF branch = "not_release_pending"
                      THEN Append(NON_RELEASE_PENDING_ISSUES,
                                  <<issue_key, status, assignee>>)
                      ELSE NON_RELEASE_PENDING_ISSUES
               /\ SKIPPED_COUNT' =
                      SKIPPED_COUNT + (IF branch = "dry_run" THEN 1 ELSE 0)
               /\ IF branch = "eligible"
                  THEN /\ pc' = AfterEligible(VERSION)
                       /\ processed' = processed
                       /\ UNCHANGED <<exitStatus, exitAt>>
                  ELSE /\ processed' = processed + 1
                       /\ IF OnIssueReturn(rc) = "loop"
                          THEN pc' = "loop" /\ UNCHANGED <<exitStatus, exitAt>>
                          ELSE Exit(rc, "errexit")
    /\ UNCHANGED <<argv, probeVars, cfgVars, SUCCESS_COUNT, issues>>
    /\ UNCHANGED <<genVars, otherVars>>

\* Faulty variant of AfterComment: a comment that failed fails the issue.
AfterComment_failFast(rc) ==
    IF rc = 0 THEN "transition" ELSE "failed"

\* add_comment "$issue_key" "...": its result is not looked at, and the
\* function goes on to the transition.
AfterComment(rc) ==
    "transition"

\* rate_limit; add_comment. The comment sent is "This issue has been
\* released in version $VERSION."; the call records the version.
AddComment ==
    /\ pc = "comment"
    /\ \E code \in CommentCodes :
           LET rc == IF code \in {<<"2","0","1">>, <<"2","0","0">>} THEN 0 ELSE 1
           IN  /\ log' = log \o rate_limit(RATE_LIMIT_SECONDS)
                             \o <<Call("POST_comment", issues[processed + 1],
                                       VERSION, code, <<>>)>>
               /\ IF AfterComment(rc) = "transition"
                  THEN /\ pc' = "transition"
                       /\ UNCHANGED <<FAILED_COUNT, processed>>
                  ELSE /\ pc' = "loop"
                       /\ FAILED_COUNT' = FAILED_COUNT + 1
                       /\ processed' = processed + 1
    /\ UNCHANGED <<argv, probeVars, cfgVars, SUCCESS_COUNT, ALREADY_CLOSED_COUNT,
                   NOT_RELEASE_PENDING_COUNT, SKIPPED_COUNT,
                   NON_RELEASE_PENDING_ISSUES, issues, exitStatus, exitAt>>
    /\ UNCHANGED <<genVars, otherVars>>

\* rate_limit; transition_issue, and the counter of its result, for a tracker
\* that answers get_transitions with one of answers.
TransitionIssue(answers) ==
    /\ pc = "transition"
    /\ \E answer \in answers, code \in TransitionCodes :
           LET issue_key == issues[processed + 1]
               chosen    == SelectTransition(answer.list, 1)
               posts     == ~answer.empty /\ chosen.id # <<>>
               ok        == posts /\ code \in {<<"2","0","4">>, <<"2","0","0">>}
           IN  /\ log' = log \o rate_limit(RATE_LIMIT_SECONDS)
                             \o <<Call("GET_transitions", issue_key, <<>>, <<>>,
                                       answer)>>
                             \o (IF posts
                                 THEN <<Call("POST_transition", issue_key,
                                             chosen.id, code, <<>>)>>
                                 ELSE <<>>)
               /\ SUCCESS_COUNT' = SUCCESS_COUNT + (IF ok THEN 1 ELSE 0)
               /\ FAILED_COUNT' = FAILED_COUNT + (IF ok THEN 0 ELSE 1)
    /\ processed' = processed + 1
    /\ pc' = "loop"
    /\ UNCHANGED <<argv, probeVars, cfgVars, ALREADY_CLOSED_COUNT,
                   NOT_RELEASE_PENDING_COUNT, SKIPPED_COUNT,
                   NON_RELEASE_PENDING_ISSUES, issues, exitStatus, exitAt>>
    /\ UNCHANGED <<genVars, otherVars>>

\* Faulty variant of FinalStatus: issues left for manual review fail the run.
FinalStatus_manualReview(failed, notReleasePending) ==
    IF failed > 0 \/ notReleasePending > 0 THEN 1 ELSE 0

\* if [[ $FAILED_COUNT -gt 0 ]]; then exit 1; fi, and the status 0 of a script
\* that runs to its end.
FinalStatus(failed, notReleasePending) ==
    IF failed > 0 THEN 1 ELSE 0

\* The end of main: the summary, and exit 1 if any issue failed.
Summary ==
    /\ pc = "loop"
    /\ processed = Len(issues)
    /\ Exit(FinalStatus(FAILED_COUNT, NOT_RELEASE_PENDING_COUNT), "end_of_main")
    /\ UNCHANGED <<argv, probeVars, cfgVars, countVars, loopVars, log>>
    /\ UNCHANGED <<genVars, otherVars>>

Next ==
    \/ CheckDependencies
    \/ ParseArgs
    \/ ValidateInputs
    \/ ExtractIssues(ChangelogSamples)
    \/ ProcessIssue
    \/ AddComment
    \/ TransitionIssue(TransitionSamples)
    \/ Summary

Spec ==
    Init /\ [][Next]_vars

\* The same script, for every command line and environment, over changelogs
\* of at most one key.
NextStartup ==
    \/ CheckDependencies
    \/ ParseArgs
    \/ ValidateInputs
    \/ ExtractIssues({<<>>, ChangelogDuplicates})
    \/ ProcessIssue
    \/ AddComment
    \/ TransitionIssue(TransitionSamples)
    \/ Summary

SpecStartup ==
    InitStartup /\ [][NextStartup]_vars

\* The same script, over every changelog of the exhaustive set.
NextExtract ==
    \/ CheckDependencies
    \/ ParseArgs
    \/ ValidateInputs
    \/ ExtractIssues(AllTexts)
    \/ ProcessIssue
    \/ AddComment
    \/ TransitionIssue(TransitionSamples)
    \/ Summary

SpecExtract ==
    InitClosing /\ [][NextExtract]_vars

\* The same script, over every list of transitions of the exhaustive set.
NextTransition ==
    \/ CheckDependencies
    \/ ParseArgs
    \/ ValidateInputs
    \/ ExtractIssues({ChangelogDuplicates})
    \/ ProcessIssue
    \/ AddComment
    \/ TransitionIssue(AllTransitionAnswers)
    \/ Summary

SpecTransition ==
    InitClosing /\ [][NextTransition]_vars

(***************************************************************************)
(* Properties of close_issues.sh                                           *)
(***************************************************************************)
\* The strings a and b are equal up to the case of their letters.
EqualIgnoringCase(a, b) ==
    /\ Len(a) = Len(b)
    /\ \A k \in 1..Len(a) :
           \/ a[k] = b[k]
           \/ \E n \in 1..Len(UpperChars) :
                  {a[k], b[k]} = {UpperChars[n], LowerChars[n]}

IsPost(e) ==
    e.op \in {"POST_comment", "POST_transition"}

IsHttp(e) ==
    e.op \in {"GET_issue", "POST_comment", "GET_transitions", "POST_transition"}

\* The issue was fetched with HTTP 200 by the call e.
FetchedOk(e) ==
    e.op = "GET_issue" /\ e.code = <<"2","0","0">>

\* The call e fetched an issue whose status is "release pending" in any case.
FetchedReleasePending(e) ==
    FetchedOk(e) /\ EqualIgnoringCase(e.recv[1], LowerReleasePending)

\* The call e fetched an issue whose status is done, closed or resolved in
\* any case.
FetchedClosed(e) ==
    /\ FetchedOk(e)
    /\ \E word \in {LowerDone, LowerClosed, LowerResolved} :
           EqualIgnoringCase(e.recv[1], word)

NoPostInLog ==
    \A i \in 1..Len(log) : ~IsPost(log[i])

NoHttpInLog ==
    \A i \in 1..Len(log) : ~IsHttp(log[i])

\* The positions of the log with a call of operation op for the issue key.
CallsOf(op, key) ==
    {i \in 1..Len(log) : log[i].op = op /\ log[i].key = key}

\* The step fetched an issue: the GET issue call it added to the log.
StepFetched ==
    /\ Len(log') > Len(log)
    /\ log'[Len(log')].op = "GET_issue"

LastCall ==
    log'[Len(log')]

\* C1: a POST (comment or transition) is issued for an issue only if DRY_RUN is
\* false and the status fetched for that issue in this run is "release pending"
\* up to case; an issue whose fetch failed or whose status is anything else
\* never receives a POST.
C1_PostOnlyForReleasePending ==
    \A i \in 1..Len(log) :
        IsPost(log[i]) =>
            /\ ~DRY_RUN
            /\ \E j \in 1..(i - 1) :
                   /\ log[j].key = log[i].key
                   /\ FetchedReleasePending(log[j])
            /\ \A j \in 1..Len(log) :
                   (log[j].op = "GET_issue" /\ log[j].key = log[i].key)
                       => FetchedReleasePending(log[j])

C1_Witness ==
    \E i \in 1..Len(log), j \in 1..Len(log) :
        /\ log[i].op = "POST_transition"
        /\ log[j].op = "POST_comment"
        /\ \E g \in CallsOf("GET_issue", log[i].key) :
               log[g].recv[1] = StatusReleasePendingUpper
        /\ \E k \in 1..Len(log) :
               FetchedOk(log[k]) /\ log[k].recv[1] = StatusInProgress

\* C2: with --dry-run no POST is issued in the whole run, and fetching an issue
\* whose status is "release pending" adds one to SKIPPED_COUNT and leaves the
\* other four counters as they are.
C2_DryRunStep ==
    (DRY_RUN /\ StepFetched /\ FetchedReleasePending(LastCall)) =>
        /\ SKIPPED_COUNT' = SKIPPED_COUNT + 1
        /\ UNCHANGED <<SUCCESS_COUNT, ALREADY_CLOSED_COUNT,
                       NOT_RELEASE_PENDING_COUNT, FAILED_COUNT>>

C2_DryRunNoMutation ==
    /\ [](DRY_RUN => NoPostInLog)
    /\ [][C2_DryRunStep]_vars

C2_Witness ==
    /\ DRY_RUN
    /\ pc = "exited"
    /\ exitAt = "end_of_main"
    /\ SKIPPED_COUNT = 2
    /\ VERSION # <<>>

\* C3: a run that passed the startup checks and reached the end of main (or
\* its exit for an empty list of issues) exits non-zero exactly if
\* FAILED_COUNT > 0.
C3_ExitStatusIffFailed ==
    (pc = "exited" /\ exitAt \in {"end_of_main", "no_issues"}) =>
        ((exitStatus # 0) <=> (FAILED_COUNT > 0))

C3_Witness ==
    /\ pc = "exited"
    /\ exitAt = "end_of_main"
    /\ exitStatus = 1
    /\ FAILED_COUNT = 1
    /\ SUCCESS_COUNT = 1

\* C4: a fetch that returns 404 or another code but 200 adds exactly one to
\* FAILED_COUNT, no other call is made for that issue, and the loop goes on:
\* every run that entered the loop ends at the end of main with every key
\* fetched.
C4_FailedFetchStep ==
    (StepFetched /\ ~FetchedOk(LastCall)) =>
        /\ FAILED_COUNT' = FAILED_COUNT + 1
        /\ UNCHANGED <<SUCCESS_COUNT, ALREADY_CLOSED_COUNT,
                       NOT_RELEASE_PENDING_COUNT, SKIPPED_COUNT>>
        /\ pc' = "loop"
        /\ processed' = processed + 1

C4_FailedFetchAlone ==
    \A i \in 1..Len(log) :
        (log[i].op = "GET_issue" /\ ~FetchedOk(log[i])) =>
            \A j \in 1..Len(log) : log[j].key = log[i].key => j = i

C4_LoopCompletes ==
    (pc = "exited" /\ issues # <<>>) =>
        /\ exitAt = "end_of_main"
        /\ processed = Len(issues)
        /\ \A k \in 1..Len(issues) : CallsOf("GET_issue", issues[k]) # {}

C4_FetchFailureIsCounted ==
    /\ [](C4_FailedFetchAlone /\ C4_LoopCompletes)
    /\ [][C4_FailedFetchStep]_vars

C4_Witness ==
    /\ pc = "exited"
    /\ Len(issues) = 2
    /\ \E i \in CallsOf("GET_issue", issues[1]) :
           log[i].code = <<"4","0","4">>
    /\ \E i \in CallsOf("POST_transition", issues[2]) : TRUE
    /\ FAILED_COUNT = 1

\* C5: a fetched issue is classified by its status up to case: done, closed or
\* resolved adds one to ALREADY_CLOSED_COUNT only; "release pending" makes the
\* issue eligible (skipped in a dry run, commented on or transitioned
\* otherwise); any other status adds one to NOT_RELEASE_PENDING_COUNT only and
\* appends one record (key, status, assignee) to the manual-review list.
C5_ClassifyStep ==
    (StepFetched /\ FetchedOk(LastCall)) =>
        IF FetchedClosed(LastCall)
        THEN /\ ALREADY_CLOSED_COUNT' = ALREADY_CLOSED_COUNT + 1
             /\ UNCHANGED <<SUCCESS_COUNT, NOT_RELEASE_PENDING_COUNT,
                            SKIPPED_COUNT, FAILED_COUNT,
                            NON_RELEASE_PENDING_ISSUES>>
             /\ pc' = "loop"
        ELSE IF FetchedReleasePending(LastCall)
        THEN /\ UNCHANGED <<SUCCESS_COUNT, ALREADY_CLOSED_COUNT,
                            NOT_RELEASE_PENDING_COUNT, FAILED_COUNT,
                            NON_RELEASE_PENDING_ISSUES>>
             /\ IF DRY_RUN
                THEN SKIPPED_COUNT' = SKIPPED_COUNT + 1 /\ pc' = "loop"
                ELSE UNCHANGED SKIPPED_COUNT /\ pc' \in {"comment", "transition"}
        ELSE /\ NOT_RELEASE_PENDING_COUNT' = NOT_RELEASE_PENDING_COUNT + 1
             /\ UNCHANGED <<SUCCESS_COUNT, ALREADY_CLOSED_COUNT, SKIPPED_COUNT,
                            FAILED_COUNT>>
             /\ NON_RELEASE_PENDING_ISSUES' =
                    Append(NON_RELEASE_PENDING_ISSUES,
                           <<LastCall.key, LastCall.recv[1], LastCall.recv[2]>>)
             /\ pc' = "loop"

C5_StatusClassification ==
    [][C5_ClassifyStep]_vars

C5_Witness ==
    /\ pc = "exited"
    /\ ALREADY_CLOSED_COUNT = 1
    /\ NOT_RELEASE_PENDING_COUNT = 1
    /\ Len(NON_RELEASE_PENDING_ISSUES) = 1
    /\ NON_RELEASE_PENDING_ISSUES[1][2] = StatusUnknown
    /\ NON_RELEASE_PENDING_ISSUES[1][3] = AssigneeUnassigned
    /\ \E i \in 1..Len(log) :
           FetchedOk(log[i]) /\ log[i].recv[1] = StatusClosedUpper

\* C6: every outbound HTTP call of the per-issue loop (GET issue, POST comment,
\* GET transitions, POST transition) is preceded by its own rate_limit delay of
\* RATE_LIMIT_SECONDS: no two calls are issued back to back.
C6_EveryCallDelayed ==
    \A i \in 1..Len(log) :
        (IsHttp(log[i]) /\ DecimalValue(RATE_LIMIT_SECONDS) > 0) =>
            /\ i > 1
            /\ log[i - 1].op = "sleep"
            /\ log[i - 1].sent = RATE_LIMIT_SECONDS

(***************************************************************************)
(* The transition the preference list asks for, stated on the list of      *)
(* transitions alone.                                                      *)
(***************************************************************************)
\* The positions of the preference list that some transition of list bears.
PreferencesPresent(list) ==
    {k \in 1..Len(TransitionPreference) :
        \E n \in 1..Len(list) :
            EqualIgnoringCase(list[n].name, TransitionPreference[k])}

\* The smallest member of a non-empty set of numbers.
SetMin(S) ==
    CHOOSE x \in S : \A y \in S : x <= y

\* The first listed transition that bears the earliest present preference.
PreferredTransition(list) ==
    LET best == SetMin(PreferencesPresent(list))
    IN  list[SetMin({n \in 1..Len(list) :
                EqualIgnoringCase(list[n].name, TransitionPreference[best])})]

TransitionPosted(i) ==
    i < Len(log) /\ log[i + 1].op = "POST_transition"

TransitionSucceeded(i) ==
    /\ TransitionPosted(i)
    /\ log[i + 1].code \in {<<"2","0","4">>, <<"2","0","0">>}

\* C7: transition_issue POSTs the id of the transition that bears the earliest
\* name of [Done, Close, Closed, Resolve, Resolved] present (up to case) among
\* the transitions of the issue, in whatever order the tracker lists them;
\* when none is present it POSTs nothing and the issue is counted as failed.
C7_TransitionByPreference ==
    /\ \A i \in 1..Len(log) :
           log[i].op = "GET_transitions" =>
               IF PreferencesPresent(log[i].recv.list) = {}
               THEN ~TransitionPosted(i)
               ELSE /\ TransitionPosted(i)
                    /\ log[i + 1].key = log[i].key
                    /\ log[i + 1].sent = PreferredTransition(log[i].recv.list).id
    /\ \A i \in 1..Len(log) :
           log[i].op = "POST_transition" =>
               i > 1 /\ log[i - 1].op = "GET_transitions"
    /\ SUCCESS_COUNT =
           Cardinality({i \in 1..Len(log) :
               log[i].op = "GET_transitions" /\ TransitionSucceeded(i)})
    /\ FAILED_COUNT =
           Cardinality({i \in 1..Len(log) :
               \/ log[i].op = "GET_issue" /\ ~FetchedOk(log[i])
               \/ log[i].op = "GET_transitions" /\ ~TransitionSucceeded(i)})

C7_Witness ==
    \E i \in 1..Len(log) :
        /\ log[i].op = "GET_transitions"
        /\ Len(log[i].recv.list) = 2
        /\ log[i].recv.list[1].name = <<"C","l","o","s","e">>
        /\ log[i].recv.list[2].name = <<"d","o","n","e">>
        /\ log[i].recv.list[1].id # log[i].recv.list[2].id
        /\ TransitionPosted(i)
        /\ log[i + 1].sent = log[i].recv.list[2].id

\* An issue for which transition_issue was reached: release pending, no dry run.
Eligible(key) ==
    /\ ~DRY_RUN
    /\ \E g \in CallsOf("GET_issue", key) : FetchedReleasePending(log[g])

\* C8: for an eligible issue a comment is POSTed exactly if a release version
\* was given, at most once, and before the transitions are fetched and the
\* transition is POSTed.
C8_CommentIffVersion ==
    \A k \in 1..Len(issues) :
        LET key      == issues[k]
            comments == CallsOf("POST_comment", key)
            later    == CallsOf("GET_transitions", key)
                            \cup CallsOf("POST_transition", key)
        IN  /\ Cardinality(comments) <= 1
            /\ \A c \in comments :
                   /\ VERSION # <<>>
                   /\ log[c].sent = VERSION
                   /\ Eligible(key)
                   /\ \A j \in later : c < j
            /\ (later # {} \/ (k <= processed /\ Eligible(key))) =>
                   /\ Eligible(key)
                   /\ later # {}
                   /\ (comments # {}) <=> (VERSION # <<>>)

C8_Witness ==
    /\ pc = "exited"
    /\ Len(issues) = 2
    /\ \E c \in CallsOf("POST_comment", issues[2]),
          g \in CallsOf("GET_transitions", issues[2]),
          t \in CallsOf("POST_transition", issues[2]) : c < g /\ g < t
    /\ CallsOf("POST_comment", issues[1]) = {}

(***************************************************************************)
(* The issue keys of a changelog, stated on the text alone.                *)
(***************************************************************************)
\* [A-Z][A-Z0-9]* with at least least letters and digits.
IsProjectPart(p, least) ==
    /\ Len(p) >= least
    /\ IsUpper(p[1])
    /\ \A k \in 2..Len(p) : IsUpper(p[k]) \/ IsDigit(p[k])

\* [0-9]+
IsNumberPart(n) ==
    Len(n) >= 1 /\ \A k \in 1..Len(n) : IsDigit(n[k])

\* A project part of at least least characters, a dash and a number.
IsKeyShaped(t, least) ==
    \E d \in 1..Len(t) :
        /\ t[d] = "-"
        /\ IsProjectPart(SubSeq(t, 1, d - 1), least)
        /\ IsNumberPart(SubSeq(t, d + 1, Len(t)))

\* The positions of text where a word begins with an uppercase letter.
TokenStarts(text) ==
    {i \in 1..Len(text) :
        IsUpper(text[i]) /\ (i = 1 \/ ~IsWordChar(text[i - 1]))}

\* The positions of text where a word ends with a digit.
TokenEnds(text) ==
    {j \in 1..Len(text) :
        IsDigit(text[j]) /\ (j = Len(text) \/ ~IsWordChar(text[j + 1]))}

\* The substrings of text shaped like a key that no word character adjoins.
PatternTokens(text) ==
    LET ends == TokenEnds(text)
    IN  UNION {{SubSeq(text, i, j) :
                    j \in {e \in ends : i < e /\ IsKeyShaped(SubSeq(text, i, e), 1)}} :
               i \in TokenStarts(text)}

\* ^[A-Z][A-Z0-9]+-[0-9]+$ and at most 50 characters.
PassesValidation(t) ==
    IsKeyShaped(t, 2) /\ Len(t) <= 50

\* C9: extract_jira_issues returns exactly the distinct tokens of the changelog
\* that match [A-Z][A-Z0-9]*-[0-9]+ at word boundaries and pass
\* validate_issue_key, each once; no key with a lowercase letter is returned;
\* a token that fails the validation is dropped with a warning, and the run
\* does not fail for it.
C9_ExtractedKeys ==
    fileExists = "yes" =>
        LET tokens == PatternTokens(changelogText)
        IN
        /\ SeqRange(issues) = {t \in tokens : PassesValidation(t)}
        /\ Cardinality(SeqRange(issues)) = Len(issues)
        /\ \A k \in 1..Len(issues) :
               \A n \in 1..Len(issues[k]) : ~IsLower(issues[k][n])
        /\ SeqRange(warnings) = {t \in tokens : ~PassesValidation(t)}
        /\ exitAt \in {"running", "no_issues", "end_of_main"}
        /\ (pc = "exited" /\ exitStatus # 0) => FAILED_COUNT > 0

C9_Witness ==
    /\ changelogText = ChangelogDuplicates
    /\ issues = << <<"A","B","-","1">> >>
    /\ warnings = << <<"A","-","2">> >>
    /\ pc = "exited"
    /\ exitStatus = 0
    /\ SUCCESS_COUNT = 1

\* An input that validate_inputs rejects, or a changelog file that is missing.
StartupInputBad ==
    \/ JIRA_API_TOKEN = <<>>
    \/ fileExists = "no"
    \/ Contains(CHANGELOG_FILE, <<".", ".">>)
    \/ VERSION # <<>> /\ ~validate_version(VERSION)
    \/ ~validate_url(JIRA_URL)
    \/ ~RateLimitIsInteger(RATE_LIMIT_SECONDS)

DependencyMissing ==
    hasJq = "missing" \/ hasCurl = "missing"

\* C10 as claimed: if jq or curl is missing, JIRA_API_TOKEN is empty, the
\* changelog file does not exist or an input fails validation, the script exits
\* with status 1 before any HTTP request.
C10_StartupFailureExitsOne ==
    (DependencyMissing \/ StartupInputBad) =>
        /\ NoHttpInLog
        /\ pc = "exited" => exitStatus = 1

\* C10 as amended: the same, except that a run whose command line asks for the
\* help (--help or -h, reached by parse_args) prints it and exits with status 0
\* before the inputs are validated; a missing jq or curl exits with status 1
\* even then. No HTTP request is issued in either case.
C10_StartupFailureExitsOneUnlessHelp ==
    /\ (DependencyMissing \/ StartupInputBad) => NoHttpInLog
    /\ (pc = "exited" /\ DependencyMissing) => exitStatus = 1
    /\ (pc = "exited" /\ StartupInputBad /\ ~helpPrinted) => exitStatus = 1
    /\ (pc = "exited" /\ helpPrinted) => (exitStatus = 0 /\ NoHttpInLog)

C10_Witness ==
    /\ pc = "exited"
    /\ exitAt = "validate_inputs"
    /\ exitStatus = 1
    /\ JIRA_API_TOKEN = <<>>
    /\ validate_url(JIRA_URL)
    /\ RateLimitIsInteger(RATE_LIMIT_SECONDS)
    /\ log = <<>>

(***************************************************************************)
(* Part II: the runs of the generator scripts                              *)
(***************************************************************************)
\* The variables of close_issues.sh while a generator script runs.
CloseIdle ==
    InitWith({<<>>}, {<<>>}, {<<>>}, {<<>>})

\* An entry of the trace.
Ev(op, q, text, ns, ok, n) ==
    [op |-> op, q |-> q, text |-> text, ns |-> ns, ok |-> ok, n |-> n]

\* await question(...), with the answer typed.
Question(q, answer) ==
    Ev("question", q, answer, <<>>, TRUE, 0)

\* console.log(...)
ConsoleLog(q, text, n) ==
    Ev("console.log", q, text, <<>>, TRUE, n)

\* process.exit(code), and the end of the module with exit status 0.
ProcessExit(code) ==
    /\ position' = "exited"
    /\ exitCode' = code

\* The first statement of a script after its declarations.
FirstPosition(s) ==
    CASE s = "releases"        -> "promptForReleaseDetails"
      [] s = "mock_components" -> "promptForCount"
      [] OTHER                 -> "checkSafetyThresholds"

\* The address of the template of a script.
TemplateAddress(s) ==
    parse(<<>>, BaseConfig(s)).root

\* The start of a script, with the outcomes that Math.random() will give.
InitGen(scripts, streams) ==
    /\ CloseIdle
    /\ OtherIdle
    /\ script \in scripts
    /\ position = FirstPosition(script)
    /\ count = IF script \in TemplateScripts \ {"releases"}
               THEN FixedCount(script) ELSE 0
    /\ populateStatus = FALSE
    /\ releasePlan = <<>>
    /\ snapshot = <<>>
    /\ currentNs = <<>>
    /\ targetNs = <<>>
    /\ idx = 0
    /\ heap = IF script \in TemplateScripts
              THEN parse(<<>>, BaseConfig(script)).heap ELSE <<>>
    /\ allConfigs = <<>>
    /\ applied = 0
    /\ \E s \in streams : rng = [stream |-> s, pos |-> 0]
    /\ suffixes = <<>>
    /\ trace = <<>>
    /\ exitCode = -1

\* scripts/applications.mjs: checkSafetyThresholds and NumberOfComponent are
\* neither imported nor declared, so the call throws a ReferenceError and
\* the run ends with status 1.
ReferenceError ==
    /\ script = "applications_mjs"
    /\ position = "checkSafetyThresholds"
    /\ trace' = Append(trace, ConsoleLog("ReferenceError", <<>>, 0))
    /\ ProcessExit(1)
    /\ UNCHANGED <<script, inputVars, loopVarsGen, closeVars, otherVars>>

\* Faulty variant of CountOf: zero is taken as a count.
CountOf_zero(raw, default) ==
    LET n == parseInt(trim(raw))
    IN  IF trim(raw) = <<>> THEN default
        ELSE IF n.nan \/ n.value < 0 THEN default
        ELSE n.value

\* The count that an answer to a count question yields.
CountOf(raw, default) ==
    LET n == parseInt(trim(raw))
    IN  IF trim(raw) = <<>> THEN default
        ELSE IF n.nan \/ n.value <= 0 THEN default
        ELSE n.value

\* promptForCount (mock components)
promptForCount(raw) ==
    CountOf(raw, DefaultCount)

\* releases: promptForReleaseDetails
PromptForReleaseDetails(in) ==
    /\ position = "promptForReleaseDetails"
    /\ \E plan \in in.releasePlan, snap \in in.snapshot,
          number \in in.numberOfReleases :
           /\ releasePlan' = trim(plan)
           /\ snapshot' = trim(snap)
           /\ count' = CountOf(number, DefaultNumberOfReleases)
           /\ trace' = trace \o <<Question("releasePlan", plan),
                                   Question("snapshot", snap),
                                   Question("numberOfReleases", number)>>
    /\ position' = "validate"
    /\ UNCHANGED <<script, populateStatus, currentNs, targetNs, loopVarsGen,
                   exitCode, closeVars, otherVars>>

\* releases: if (!releasePlan || !snapshot) process.exit(1)
ValidateRelease ==
    /\ position = "validate"
    /\ IF releasePlan = <<>> \/ snapshot = <<>>
       THEN /\ trace' = Append(trace, ConsoleLog("required", <<>>, 0))
            /\ ProcessExit(1)
       ELSE /\ trace' = Append(trace, ConsoleLog("configuration", <<>>, count))
            /\ position' = "checkSafetyThresholds"
            /\ UNCHANGED exitCode
    /\ UNCHANGED <<script, inputVars, loopVarsGen, closeVars, otherVars>>

\* mock components: const count = await promptForCount()
PromptForCount(in) ==
    /\ position = "promptForCount"
    /\ \E raw \in in.count :
           /\ count' = promptForCount(raw)
           /\ trace' = Append(trace, Question("count", raw))
    /\ position' = "promptForPopulateStatus"
    /\ UNCHANGED <<script, populateStatus, releasePlan, snapshot, currentNs,
                   targetNs, loopVarsGen, exitCode, closeVars, otherVars>>

\* mock components: promptForPopulateStatus
PromptForPopulateStatus(in) ==
    /\ position = "promptForPopulateStatus"
    /\ \E raw \in in.populateStatus :
           /\ populateStatus' = (toLowerCase(trim(raw)) = AnswerY)
           /\ trace' = Append(trace, Question("populateStatus", raw))
    /\ position' = "checkSafetyThresholds"
    /\ UNCHANGED <<script, count, releasePlan, snapshot, currentNs, targetNs,
                   loopVarsGen, exitCode, closeVars, otherVars>>

\* const shouldProceed = await checkSafetyThresholds(count);
\* if (!shouldProceed) process.exit(0)
SafetyCheck(in) ==
    /\ position = "checkSafetyThresholds"
    /\ script # "applications_mjs"
    /\ \E proceed \in IF SafetyQuestionAsked(count) THEN in.proceed ELSE {<<>>} :
           LET asked == IF SafetyQuestionAsked(count)
                        THEN <<ConsoleLog("caution", <<>>, count),
                               Question("proceed", proceed)>>
                        ELSE <<>>
           IN  IF checkSafetyThresholds(count, proceed)
               THEN /\ trace' = trace \o asked
                    /\ position' = "getCurrentNamespace"
                    /\ UNCHANGED exitCode
               ELSE /\ trace' = trace \o asked
                                    \o <<ConsoleLog("cancelled", <<>>, 0)>>
                    /\ ProcessExit(0)
    /\ UNCHANGED <<script, inputVars, loopVarsGen, closeVars, otherVars>>

\* const currentNs = await getCurrentNamespace()
GetCurrentNamespace(in) ==
    /\ position = "getCurrentNamespace"
    /\ \E result \in in.kubectl :
           /\ currentNs' = getCurrentNamespace(result)
           /\ trace' = Append(trace, Ev("kubectl config view", "", result.stdout,
                                        <<>>, ~result.failed, 0))
    /\ position' = "promptForNamespace"
    /\ UNCHANGED <<script, count, populateStatus, releasePlan, snapshot,
                   targetNs, loopVarsGen, exitCode, closeVars, otherVars>>

\* Where the script goes when its loop variable is i: into the loop body, or
\* past the loop.
LoopPosition(s, i, n) ==
    IF s = "mock_components"
    THEN IF i <= LastIndex(s, n) THEN "createMock" ELSE "finish"
    ELSE IF i <= LastIndex(s, n) THEN "materialize" ELSE "apply"

\* const targetNs = await promptForNamespace(currentNs), the two messages
\* that follow, and the start of the loop.
PromptForNamespace(in) ==
    /\ position = "promptForNamespace"
    /\ \E useCurrentNs \in in.useCurrentNs :
       \E newNs \in IF AsksNewNamespace(useCurrentNs) THEN in.newNs ELSE {<<>>} :
           /\ targetNs' = promptForNamespace(currentNs, useCurrentNs, newNs)
           /\ trace' = trace
                  \o <<Question("useCurrentNs", useCurrentNs)>>
                  \o (IF AsksNewNamespace(useCurrentNs)
                      THEN <<Question("newNs", newNs)>> ELSE <<>>)
                  \o <<ConsoleLog("using_namespace", targetNs', 0),
                       ConsoleLog("creating", <<>>, count)>>
    /\ idx' = FirstIndex(script)
    /\ position' = LoopPosition(script, FirstIndex(script), count)
    /\ UNCHANGED <<script, count, populateStatus, releasePlan, snapshot,
                   currentNs, heap, allConfigs, applied, rng, suffixes,
                   exitCode, closeVars, otherVars>>

\* One turn of the loop that copies the template, names the copy and pushes
\* it to allConfigs.
Materialize ==
    /\ position = "materialize"
    /\ LET copy   == DeepCopy(heap, TemplateAddress(script))
           call   == appendRandomString(SuffixMin(script), SuffixMax(script), rng)
           suffix == IF HasSuffix(script) THEN call.out ELSE <<>>
           name   == ConfigName(script, idx, releasePlan, suffix)
       IN  /\ heap' = SetFields(copy.heap, copy.root,
                          ConfigWrites(script, idx, count, name, targetNs,
                                       releasePlan, snapshot))
           /\ allConfigs' = Append(allConfigs, copy.root)
           /\ rng' = IF HasSuffix(script) THEN call.rng ELSE rng
           /\ suffixes' = IF HasSuffix(script)
                          THEN Append(suffixes, [min |-> SuffixMin(script),
                                                 max |-> SuffixMax(script),
                                                 out |-> call.out])
                          ELSE suffixes
    /\ idx' = idx + 1
    /\ position' = LoopPosition(script, idx + 1, count)
    /\ UNCHANGED <<script, inputVars, applied, trace, exitCode, closeVars, otherVars>>

\* The string at path in a JSON text, empty when there is none.
Leaf(doc, path) ==
    LET found == {e \in doc : e.path = path}
    IN  IF found = {} THEN <<>> ELSE (CHOOSE e \in found : TRUE).s

\* Faulty variant of createResource: no sleep after the apply.
createResource_noSleep(name, ns, ok, r) ==
    IF ok
    THEN <<Ev("kubectl apply", "", name, ns, TRUE, 0),
           ConsoleLog("created", name, 0)>>
    ELSE <<Ev("kubectl apply", "", name, ns, FALSE, 0),
           ConsoleLog("failed_create", name, 0)>>

\* createResource: what it does for a kubectl apply that succeeds or fails,
\* r being the outcome of Math.random() for the delay. The apply entry holds
\* metadata.name and metadata.namespace of the JSON text given to kubectl.
createResource(name, ns, ok, r) ==
    IF ok
    THEN <<Ev("kubectl apply", "", name, ns, TRUE, 0),
           ConsoleLog("created", name, 0),
           Ev("sleep", "", <<>>, <<>>, TRUE, createDelay(r))>>
    ELSE <<Ev("kubectl apply", "", name, ns, FALSE, 0),
           ConsoleLog("failed_create", name, 0)>>

\* Faulty variant of AfterApply: a failed apply is logged and the loop goes on.
AfterApply_continue(ok, next) ==
    next

\* Where the script goes after createResource: on, or process.exit(1).
AfterApply(ok, next) ==
    IF ok THEN next ELSE "exit"

\* for (const config of allConfigs) await createResource(config, type)
CreateResource(in) ==
    /\ position = "apply"
    /\ applied < Len(allConfigs)
    /\ LET doc == stringify(heap, allConfigs[applied + 1], <<>>)
       IN  \E ok \in in.apply :
               /\ trace' = trace \o createResource(Leaf(doc, PathName),
                                       Leaf(doc, PathNamespace), ok,
                                       NextRandom(rng))
               /\ LET next == AfterApply(ok,
                                  IF applied + 1 = Len(allConfigs)
                                  THEN "finish" ELSE "apply")
                  IN  IF next = "exit"
                      THEN ProcessExit(1)
                      ELSE position' = next /\ UNCHANGED exitCode
    /\ applied' = applied + 1
    /\ rng' = Advance(rng)
    /\ UNCHANGED <<script, inputVars, idx, heap, allConfigs, suffixes,
                   closeVars, otherVars>>

\* makeComponentName(i)
makeComponentName(i, suffix) ==
    ConfigName("mock_components", i, <<>>, suffix)

\* Faulty variant of AfterCreate: the status is patched in every run.
AfterCreate_always(populate, next) ==
    "patchStatus"

\* if (populateStatus) await patchStatus(...): where the loop body goes
\* after createResource.
AfterCreate(populate, next) ==
    IF populate THEN "patchStatus" ELSE next

\* mock components: the loop body up to createResource. The spec of the
\* config (makeSpec) has no part in what the run does next.
CreateMockComponent(in) ==
    /\ position = "createMock"
    /\ LET call == appendRandomString(SuffixMin(script), SuffixMax(script), rng)
           name == makeComponentName(idx, call.out)
       IN  /\ suffixes' = Append(suffixes, [min |-> SuffixMin(script),
                                            max |-> SuffixMax(script),
                                            out |-> call.out])
           /\ rng' = Advance(call.rng)
           /\ \E ok \in in.apply :
                  /\ trace' = trace \o createResource(name, targetNs, ok,
                                                      NextRandom(call.rng))
                  /\ LET next == AfterApply(ok,
                                     AfterCreate(populateStatus,
                                         LoopPosition(script, idx + 1, count)))
                     IN  /\ IF next = "exit"
                            THEN ProcessExit(1)
                            ELSE position' = next /\ UNCHANGED exitCode
                         /\ idx' = IF next = "patchStatus" THEN idx ELSE idx + 1
    /\ UNCHANGED <<script, inputVars, heap, allConfigs, applied, closeVars,
                   otherVars>>

\* The greatest number of failed status patches in one run, unless every
\* patch of the run fails.
MaxPatchFailures ==
    1

PatchesIn(t) ==
    Len(SelectSeq(t, LAMBDA e : e.op = "kubectl patch"))

PatchFailuresIn(t) ==
    Len(SelectSeq(t, LAMBDA e : e.op = "kubectl patch" /\ ~e.ok))

\* Faulty variant of AfterPatch: a failed patch ends the run like a failed apply.
AfterPatch_exit(ok, next) ==
    IF ok THEN next ELSE "exit"

\* Where the script goes after patchStatus: on, whatever the outcome.
AfterPatch(ok, next) ==
    next

\* mock components: if (populateStatus) await patchStatus({...})
PatchStatus(in) ==
    /\ position = "patchStatus"
    /\ LET name == makeComponentName(idx, suffixes[Len(suffixes)].out)
       IN  \E ok \in in.patch :
               /\ \/ ok
                  \/ PatchFailuresIn(trace) < MaxPatchFailures
                  \/ PatchFailuresIn(trace) = PatchesIn(trace)
               /\ trace' = trace \o <<Ev("kubectl patch", "", name, targetNs, ok, 0),
                                       ConsoleLog(IF ok THEN "patched"
                                                  ELSE "failed_patch", name, 0)>>
               /\ LET next == AfterPatch(ok, LoopPosition(script, idx + 1, count))
                  IN  IF next = "exit"
                      THEN ProcessExit(1)
                      ELSE position' = next /\ UNCHANGED exitCode
    /\ idx' = idx + 1
    /\ UNCHANGED <<script, inputVars, heap, allConfigs, applied, rng, suffixes,
                   closeVars, otherVars>>

\* The last message, and the end of the module.
Finish ==
    /\ position = "finish"
    /\ trace' = Append(trace, ConsoleLog("success", <<>>,
                           IF script = "mock_components" THEN count
                           ELSE Len(allConfigs)))
    /\ ProcessExit(0)
    /\ UNCHANGED <<script, inputVars, loopVarsGen, closeVars, otherVars>>

(***************************************************************************)
(* The answers, kubectl results and random outcomes of the runs            *)
(***************************************************************************)
KubectlFailed ==
    [failed |-> TRUE, stdout |-> <<>>]

KubectlPrinted(stdout) ==
    [failed |-> FALSE, stdout |-> stdout]

\* One run of every kind: the gate passed and declined, the current
\* namespace kept and replaced, the default count, a count below and one
\* above the threshold, applies and patches that succeed and fail.
GenInputs ==
    [proceed          |-> {<<"y">>, <<"n">>},
     kubectl          |-> {KubectlFailed,
                           KubectlPrinted(<<"t","e","a","m","-","a">> \o <<"\n">>)},
     useCurrentNs     |-> {<<"y">>, <<"n">>},
     newNs            |-> {<<" ","d","e","v"," ">>},
     count            |-> {<<>>, <<"2">>, <<"1","2">>},
     populateStatus   |-> {<<"y">>, <<>>},
     releasePlan      |-> {<<"p","l","a","n","-","a">>, <<>>},
     snapshot         |-> {<<"s","n","a","p","-","1">>, <<" ">>},
     numberOfReleases |-> {<<>>, <<"2">>, <<"1","2">>},
     apply            |-> BOOLEAN,
     patch            |-> BOOLEAN]

\* Math.random() giving 0 every time, and giving 35/72, 3/72, 27/72 in turn.
RandomStreamSamples ==
    {<<0>>, <<35, 3, 27>>}

NextGen ==
    \/ ReferenceError
    \/ PromptForReleaseDetails(GenInputs)
    \/ ValidateRelease
    \/ PromptForCount(GenInputs)
    \/ PromptForPopulateStatus(GenInputs)
    \/ SafetyCheck(GenInputs)
    \/ GetCurrentNamespace(GenInputs)
    \/ PromptForNamespace(GenInputs)
    \/ Materialize
    \/ CreateResource(GenInputs)
    \/ CreateMockComponent(GenInputs)
    \/ PatchStatus(GenInputs)
    \/ Finish

\* Every script, on the sample inputs.
SpecGen ==
    InitGen(Scripts, RandomStreamSamples) /\ [][NextGen]_vars

(***************************************************************************)
(* Properties of the generator scripts                                     *)
(***************************************************************************)
IsApply(e) ==
    e.op = "kubectl apply"

IsPatch(e) ==
    e.op = "kubectl patch"

IsLog(e, q) ==
    e.op = "console.log" /\ e.q = q

\* C11: when the kubectl apply of createResource fails, the run ends there
\* with exit status 1: the failure is reported with the name of the
\* resource, no later apply or patch is issued, "Successfully processed" is
\* not printed, and nothing but config view, apply and patch is ever asked
\* of kubectl, so no resource created earlier is deleted.
C11_ApplyFailureEndsRun ==
    /\ \A i \in 1..Len(trace) :
           (IsApply(trace[i]) /\ ~trace[i].ok) =>
               /\ position = "exited"
               /\ exitCode = 1
               /\ Len(trace) = i + 1
               /\ IsLog(trace[i + 1], "failed_create")
               /\ trace[i + 1].text = trace[i].text
    /\ \A i \in 1..Len(trace) :
           trace[i].op \in {"question", "console.log", "sleep",
                            "kubectl config view", "kubectl apply",
                            "kubectl patch"}

C11_Witness ==
    /\ Len(trace) > 2
    /\ IsApply(trace[Len(trace) - 1])
    /\ ~trace[Len(trace) - 1].ok
    /\ exitCode = 1
    /\ \E i \in 1..Len(trace) : IsApply(trace[i]) /\ trace[i].ok
    /\ \E i \in 1..Len(trace) : IsPatch(trace[i])

(***************************************************************************)
(* Every answer to the question of the safety gate, for counts on both     *)
(* sides of the threshold                                                  *)
(***************************************************************************)
MaxAnswerLen ==
    2

AnswerAlphabet ==
    {"y", "Y", "n", " "}

RECURSIVE AnswersOf(_)
AnswersOf(n) ==
    IF n = 0 THEN {<<>>}
    ELSE LET shorter == AnswersOf(n - 1)
         IN  shorter \cup {Append(a, c) : a \in shorter, c \in AnswerAlphabet}

AllAnswers ==
    AnswersOf(MaxAnswerLen) \cup {<<"y","e","s">>}

\* The greatest count typed in answer to a count question.
MaxCount ==
    12

GateInputs ==
    [proceed          |-> AllAnswers,
     kubectl          |-> {KubectlFailed},
     useCurrentNs     |-> {<<"y">>},
     newNs            |-> {<<>>},
     count            |-> {DecimalString(n) : n \in 1..MaxCount},
     populateStatus   |-> {<<"y">>},
     releasePlan      |-> {<<"p","l","a","n","-","a">>},
     snapshot         |-> {<<"s","n","a","p","-","1">>},
     numberOfReleases |-> {DecimalString(n) : n \in 1..MaxCount},
     apply            |-> {TRUE},
     patch            |-> {TRUE}]

NextGate ==
    \/ ReferenceError
    \/ PromptForReleaseDetails(GateInputs)
    \/ ValidateRelease
    \/ PromptForCount(GateInputs)
    \/ PromptForPopulateStatus(GateInputs)
    \/ SafetyCheck(GateInputs)
    \/ GetCurrentNamespace(GateInputs)
    \/ PromptForNamespace(GateInputs)
    \/ Materialize
    \/ CreateResource(GateInputs)
    \/ CreateMockComponent(GateInputs)
    \/ PatchStatus(GateInputs)
    \/ Finish

SpecGate ==
    InitGen(Scripts, {<<0>>}) /\ [][NextGate]_vars

IsQuestion(e, q) ==
    e.op = "question" /\ e.q = q

\* The answer is the letter y, small or capital.
SaysYes(answer) ==
    Len(answer) = 1 /\ answer[1] \in {"y", "Y"}

\* C12: in every generator script, when checkSafetyThresholds returns false
\* (the count is above 10 and the answer is anything but y or Y), the run
\* issues no kubectl apply and no kubectl patch, does not ask for a
\* namespace, and exits with status 0.
C12_DeclinedGateEndsRun ==
    \A i \in 1..Len(trace) :
        (IsQuestion(trace[i], "proceed") /\ ~SaysYes(trace[i].text)) =>
            /\ count > 10
            /\ position = "exited"
            /\ exitCode = 0
            /\ Len(trace) = i + 1
            /\ IsLog(trace[i + 1], "cancelled")
            /\ \A j \in 1..Len(trace) :
                   /\ ~IsApply(trace[j])
                   /\ ~IsPatch(trace[j])
                   /\ ~IsQuestion(trace[j], "useCurrentNs")
                   /\ ~IsQuestion(trace[j], "newNs")

C12_Witness ==
    /\ script = "components"
    /\ position = "exited"
    /\ exitCode = 0
    /\ \E i \in 1..Len(trace) :
           IsQuestion(trace[i], "proceed") /\ trace[i].text = <<"y","e","s">>

\* checkSafetyThresholds has returned true: the script went on to ask kubectl
\* for the current namespace.
GateReturnedTrue ==
    \/ position = "getCurrentNamespace"
    \/ \E i \in 1..Len(trace) : trace[i].op = "kubectl config view"

\* checkSafetyThresholds has returned false: the script said so and left.
GateReturnedFalse ==
    \E i \in 1..Len(trace) : IsLog(trace[i], "cancelled")

ProceedQuestions ==
    {i \in 1..Len(trace) : IsQuestion(trace[i], "proceed")}

\* C13: checkSafetyThresholds(count) returns true without a question for
\* every count of at most 10; for every greater count it asks exactly one
\* question and returns true exactly if the answer is y or Y, so that n,
\* the empty string, yes and every other answer give false.
C13_SafetyGate ==
    /\ Cardinality(ProceedQuestions) <= 1
    /\ ~(GateReturnedTrue /\ GateReturnedFalse)
    /\ (GateReturnedTrue \/ GateReturnedFalse) =>
           IF count <= 10
           THEN ProceedQuestions = {} /\ GateReturnedTrue
           ELSE /\ Cardinality(ProceedQuestions) = 1
                /\ \A i \in ProceedQuestions :
                       GateReturnedTrue <=> SaysYes(trace[i].text)
    /\ ProceedQuestions # {} => (GateReturnedTrue \/ GateReturnedFalse)

C13_Witness ==
    /\ script = "mock_components"
    /\ count = 11
    /\ position = "exited"
    /\ exitCode = 0
    /\ \E i \in ProceedQuestions : trace[i].text = <<"Y">>
    /\ \E i \in 1..Len(trace) : IsLog(trace[i], "success")

Applies ==
    {i \in 1..Len(trace) : IsApply(trace[i])}

Patches ==
    {i \in 1..Len(trace) : IsPatch(trace[i])}

\* The number of applies up to position i of the trace.
AppliesUpTo(i) ==
    Cardinality({j \in Applies : j <= i})

\* C14: in the mock-components script a failing status patch never ends the
\* run: the failure is logged once and the loop goes on to create the next
\* component, so that with status population enabled and every create
\* succeeding all count components are created, however many patches fail,
\* and the run ends with the success message and status 0.
C14_PatchFailureGoesOn ==
    script = "mock_components" =>
        /\ \A i \in Patches :
               /\ i < Len(trace)
               /\ IsLog(trace[i + 1], IF trace[i].ok THEN "patched"
                                      ELSE "failed_patch")
               /\ trace[i + 1].text = trace[i].text
               /\ IF i + 1 = Len(trace)
                  THEN position \in {"createMock", "finish"} /\ exitCode = -1
                  ELSE \/ /\ IsApply(trace[i + 2])
                          /\ trace[i + 2].text =
                                 makeComponentName(AppliesUpTo(i) + 1,
                                     suffixes[AppliesUpTo(i) + 1].out)
                       \/ /\ IsLog(trace[i + 2], "success")
                          /\ AppliesUpTo(i) = count
        /\ Cardinality({i \in 1..Len(trace) : IsLog(trace[i], "failed_patch")})
               = PatchFailuresIn(trace)
        /\ (position = "exited" /\ exitCode = 1) =>
               (Len(trace) >= 2 /\ IsApply(trace[Len(trace) - 1])
                                /\ ~trace[Len(trace) - 1].ok)
        /\ (position = "exited" /\ exitCode = 0 /\ ~GateReturnedFalse) =>
               /\ IsLog(trace[Len(trace)], "success")
               /\ Cardinality({i \in Applies : trace[i].ok}) = count
               /\ populateStatus => Cardinality(Patches) = count

C14_Witness ==
    /\ script = "mock_components"
    /\ populateStatus
    /\ count = 12
    /\ position = "exited"
    /\ exitCode = 0
    /\ PatchFailuresIn(trace) = count
    /\ Cardinality({i \in Applies : trace[i].ok}) = count

\* The run went through: the gate was passed and no apply failed.
RunSucceeded ==
    /\ position = "exited"
    /\ \E i \in 1..Len(trace) : IsLog(trace[i], "success")

\* C15: in every generator script, on a run that passes the safety gate and
\* has no apply failure, the number of configs materialized and applied
\* equals the count N given to checkSafetyThresholds and printed in the
\* "Creating N ..." message.
C15_AppliedEqualsCount ==
    RunSucceeded =>
        /\ \A i \in 1..Len(trace) : IsLog(trace[i], "creating") => trace[i].n = count
        /\ Cardinality({i \in Applies : trace[i].ok}) = count
        /\ script \in TemplateScripts => Len(allConfigs) = count

(***************************************************************************)
(* Every sequence of outcomes of Math.random(), for every count            *)
(***************************************************************************)
\* Outcomes that give the shortest and longest suffix, letters and digits.
RandomOutcomes ==
    {0, 1, 27, RandomGrid - 1}

MaxStreamLen ==
    2

RECURSIVE StreamsOf(_)
StreamsOf(n) ==
    IF n = 1 THEN {<<r>> : r \in RandomOutcomes}
    ELSE LET shorter == StreamsOf(n - 1)
         IN  shorter \cup {Append(s, r) : s \in shorter, r \in RandomOutcomes}

AllStreams ==
    StreamsOf(MaxStreamLen)

NamesInputs ==
    [GateInputs EXCEPT !.proceed = {<<"y">>}]

NextNames ==
    \/ ReferenceError
    \/ PromptForReleaseDetails(NamesInputs)
    \/ ValidateRelease
    \/ PromptForCount(NamesInputs)
    \/ PromptForPopulateStatus(NamesInputs)
    \/ SafetyCheck(NamesInputs)
    \/ GetCurrentNamespace(NamesInputs)
    \/ PromptForNamespace(NamesInputs)
    \/ Materialize
    \/ CreateResource(NamesInputs)
    \/ CreateMockComponent(NamesInputs)
    \/ PatchStatus(NamesInputs)
    \/ Finish

SpecNames ==
    InitGen(Scripts, AllStreams) /\ [][NextNames]_vars

\* metadata.name of the k-th config pushed to allConfigs.
NameOf(k) ==
    GetField(heap, allConfigs[k], PathName)

\* C16: within one run the metadata.name values of all materialized configs
\* are pairwise distinct, for every count and every outcome of the random
\* suffix generator, the empty suffix included.
C16_NamesDistinct ==
    /\ \A i \in 1..Len(allConfigs) : \A j \in 1..Len(allConfigs) :
           i # j => NameOf(i) # NameOf(j)
    /\ \A i \in Applies : \A j \in Applies :
           i # j => trace[i].text # trace[j].text

C16_Witness ==
    /\ script = "applications"
    /\ Len(allConfigs) = 10
    /\ \A k \in 1..Len(suffixes) : suffixes[k].out = <<>>
    /\ NameOf(1) = <<"t","e","s","t","-","a","p","p","l","i","c","a","t","i","o","n","-","1","1","-">>
    /\ NameOf(10) = <<"t","e","s","t","-","a","p","p","l","i","c","a","t","i","o","n","-","2","0","-">>

\* The addresses of the objects and arrays reached from address a.
RECURSIVE Reach(_, _)
Reach(h, a) ==
    {a} \cup UNION {Reach(h, h[a].fields[f].r) :
                        f \in {g \in DOMAIN h[a].fields : h[a].fields[g].k = "ref"}}

\* A property of the innermost object of the template of a script.
DeepPath(s) ==
    CASE s = "applications"    -> <<"metadata", "annotations", "application.thumbnail">>
      [] s = "components"      -> <<"spec", "source", "git", "url">>
      [] s = "integrationtest" -> <<"spec", "resolverRef", "params", "0", "value">>
      [] s = "releases"        -> PathSynopsis

\* The JSON text of the k-th config in heap h.
ConfigText(h, k) ==
    stringify(h, allConfigs[k], <<>>)

TemplateText(h) ==
    stringify(h, TemplateAddress(script), <<>>)

\* C17: materializing configs never modifies the base template, and no two
\* configs share an object with each other or with the template: the
\* template keeps its initial value, and writing a property of config i
\* (spec.data.releaseNotes.synopsis, say) leaves every other config and the
\* template as they were.
C17_NoSharing ==
    script \in TemplateScripts =>
        /\ TemplateText(heap) = BaseConfig(script)
        /\ \A i \in 1..Len(allConfigs) :
               /\ Reach(heap, allConfigs[i])
                      \cap Reach(heap, TemplateAddress(script)) = {}
               /\ \A j \in 1..Len(allConfigs) :
                      i # j => Reach(heap, allConfigs[i])
                                   \cap Reach(heap, allConfigs[j]) = {}
               /\ LET written == SetField(heap, allConfigs[i], DeepPath(script),
                                          <<"w">>)
                  IN  /\ TemplateText(written) = BaseConfig(script)
                      /\ ConfigText(written, i) # ConfigText(heap, i)
                      /\ \A j \in 1..Len(allConfigs) :
                             i # j => ConfigText(written, j) = ConfigText(heap, j)
        /\ script = "releases" =>
               \A i \in 1..Len(allConfigs) :
                   GetField(heap, allConfigs[i], PathSynopsis) =
                       SynopsisHead \o DecimalString(i) \o SynopsisOf
                           \o DecimalString(count)

C17_Witness ==
    /\ script = "releases"
    /\ position = "exited"
    /\ exitCode = 0
    /\ Len(allConfigs) = 2
    /\ GetField(heap, allConfigs[1], PathSynopsis) = <<"A","u","t","o","m","a","t","e","d"," ","r","e","l","e","a","s","e"," ","1"," ","o","f"," ","2">>
    /\ GetField(heap, allConfigs[2], PathSynopsis) = <<"A","u","t","o","m","a","t","e","d"," ","r","e","l","e","a","s","e"," ","2"," ","o","f"," ","2">>
    /\ GetField(heap, TemplateAddress(script), PathSynopsis) = <<>>

NamespaceQuestions ==
    {i \in 1..Len(trace) : IsQuestion(trace[i], "useCurrentNs")}

\* C18 as claimed: in one script run promptForNamespace is called exactly
\* once, and every config given to createResource and every status patch
\* carries exactly the namespace it returned.
C18_NamespaceAskedExactlyOnce ==
    position = "exited" =>
        /\ Cardinality(NamespaceQuestions) = 1
        /\ \A i \in Applies \cup Patches : trace[i].ns = targetNs

\* C18 as amended: promptForNamespace is called at most once in a run: not
\* at all in a run that ends before it (gate declined, release plan or
\* snapshot missing, scripts/applications.mjs), and exactly once, before the
\* first config is made, in every other run. Every config made, every config
\* given to createResource and every status patch carries exactly the
\* namespace it returned: the current namespace after the answer y or Y,
\* else the trimmed answer to the second question.
C18_NamespaceOnceAndUniform ==
    /\ Cardinality(NamespaceQuestions) <= 1
    /\ (position = "exited" /\ NamespaceQuestions = {}) =>
           /\ Applies \cup Patches = {}
           /\ allConfigs = <<>>
           /\ \/ GateReturnedFalse
              \/ script = "applications_mjs"
              \/ script = "releases" /\ (releasePlan = <<>> \/ snapshot = <<>>)
    /\ (position \in {"materialize", "apply", "createMock", "patchStatus",
                      "finish"} \/ Applies # {} \/ allConfigs # <<>>) =>
           Cardinality(NamespaceQuestions) = 1
    /\ \A q \in NamespaceQuestions :
           /\ \A i \in Applies \cup Patches : q < i
           /\ IF SaysYes(trace[q].text)
              THEN targetNs = currentNs
              ELSE /\ IsQuestion(trace[q + 1], "newNs")
                   /\ targetNs = trim(trace[q + 1].text)
    /\ \A i \in Applies \cup Patches : trace[i].ns = targetNs
    /\ \A k \in 1..Len(allConfigs) :
           GetField(heap, allConfigs[k], PathNamespace) = targetNs

C18_Witness ==
    /\ script = "mock_components"
    /\ position = "exited"
    /\ exitCode = 0
    /\ targetNs = <<"d","e","v">>
    /\ currentNs = <<"t","e","a","m","-","a">>
    /\ Cardinality(Applies) = 2
    /\ Cardinality(Patches) = 2
    /\ \A i \in Applies \cup Patches : trace[i].ns = <<"d","e","v">>

(***************************************************************************)
(* Every output of the kubectl query for the current namespace             *)
(***************************************************************************)
MaxStdoutLen ==
    3

StdoutAlphabet ==
    {"a", "b", " ", "\n"}

RECURSIVE StdoutsOf(_)
StdoutsOf(n) ==
    IF n = 0 THEN {<<>>}
    ELSE LET shorter == StdoutsOf(n - 1)
         IN  shorter \cup {Append(s, c) : s \in shorter, c \in StdoutAlphabet}

NamespaceInputs ==
    [GenInputs EXCEPT
        !.kubectl = {KubectlFailed}
                        \cup {KubectlPrinted(s) : s \in StdoutsOf(MaxStdoutLen)},
        !.apply = {TRUE}]

NextNamespace ==
    \/ SafetyCheck(NamespaceInputs)
    \/ GetCurrentNamespace(NamespaceInputs)
    \/ PromptForNamespace(NamespaceInputs)
    \/ Materialize
    \/ CreateResource(NamespaceInputs)
    \/ Finish

\* The integration-test script, whatever kubectl answers.
SpecNamespace ==
    InitGen({"integrationtest"}, {<<0>>}) /\ [][NextNamespace]_vars

\* The positions of s that hold something else than white space.
Inked(s) ==
    {k \in 1..Len(s) : s[k] \notin {" ", "\t", "\n", "\r"}}

\* s from its first to its last character that is not white space.
Stripped(s) ==
    SubSeq(s, SetMin(Inked(s)), SetMax(Inked(s)))

\* C19: getCurrentNamespace never throws: it returns "default" whenever the
\* kubectl query fails or prints nothing but white space, and otherwise the
\* trimmed output of the query.
C19_CurrentNamespace ==
    \A i \in 1..Len(trace) :
        trace[i].op = "kubectl config view" =>
            /\ currentNs = IF ~trace[i].ok \/ Inked(trace[i].text) = {}
                           THEN <<"d","e","f","a","u","l","t">>
                           ELSE Stripped(trace[i].text)
            /\ currentNs # <<>>
            /\ IF i = Len(trace)
               THEN position = "promptForNamespace" /\ exitCode = -1
               ELSE IsQuestion(trace[i + 1], "useCurrentNs")

C19_Witness ==
    /\ currentNs = <<"a">>
    /\ \E i \in 1..Len(trace) :
           /\ trace[i].op = "kubectl config view"
           /\ trace[i].text = <<" ", "a", "\n">>
    /\ targetNs = <<"a">>
    /\ position = "exited"

(***************************************************************************)
(* appendRandomString on its own                                           *)
(***************************************************************************)
MaxSuffixBound ==
    4

\* The arguments of a call: { min, max } with 0 <= min <= max, or none.
SuffixArguments ==
    LET bounds == {b \in (0..MaxSuffixBound) \X (0..MaxSuffixBound) :
                       b[1] <= b[2]}
    IN  {<<"none">>} \cup {<<"given", b[1], b[2]>> : b \in bounds}

\* Every outcome for the length, followed by an outcome for each character.
LengthStreams ==
    {<<r>> : r \in 0..(RandomGrid - 1)}
        \cup {<<r, c>> : r \in 0..(RandomGrid - 1), c \in RandomOutcomes}

InitRandom ==
    /\ CloseIdle
    /\ OtherIdle
    /\ script = "none"
    /\ position = "idle"
    /\ count = 0
    /\ populateStatus = FALSE
    /\ releasePlan = <<>>
    /\ snapshot = <<>>
    /\ currentNs = <<>>
    /\ targetNs = <<>>
    /\ idx = 0
    /\ heap = <<>>
    /\ allConfigs = <<>>
    /\ applied = 0
    /\ \E s \in LengthStreams : rng = [stream |-> s, pos |-> 0]
    /\ suffixes = <<>>
    /\ trace = <<>>
    /\ exitCode = -1

\* One call of appendRandomString, with { min, max } or with no argument.
CallAppendRandomString ==
    /\ script = "none"
    /\ position = "idle"
    /\ \E args \in SuffixArguments :
           LET min == IF args[1] = "none" THEN DefaultSuffixMin ELSE args[2]
               max == IF args[1] = "none" THEN DefaultSuffixMax ELSE args[3]
               made == appendRandomString(min, max, rng)
           IN  /\ suffixes' = Append(suffixes, [min |-> min, max |-> max,
                                                out |-> made.out])
               /\ rng' = made.rng
               /\ position' = IF args[1] = "none"
                              THEN "appendRandomString()"
                              ELSE "appendRandomString({ min, max })"
    /\ UNCHANGED <<script, inputVars, idx, heap, allConfigs, applied, trace,
                   exitCode>>
    /\ UNCHANGED <<closeVars, otherVars>>

NextCalls ==
    CallAppendRandomString

SpecRandom ==
    InitRandom /\ [][NextCalls]_vars

\* C20: for all integers 0 <= min <= max, appendRandomString({ min, max })
\* returns a string of a length from min to max whose characters are all
\* lower-case letters or digits; without argument min is 0 and max is 40.
C20_SuffixWithinBounds ==
    \A k \in 1..Len(suffixes) :
        LET call == suffixes[k]
        IN  /\ call.min <= Len(call.out)
            /\ Len(call.out) <= call.max
            /\ \A j \in 1..Len(call.out) :
                   call.out[j] \in
                       {"a", "b", "c", "d", "e", "f", "g", "h", "i", "j", "k",
                        "l", "m", "n", "o", "p", "q", "r", "s", "t", "u", "v",
                        "w", "x", "y", "z", "0", "1", "2", "3", "4", "5", "6",
                        "7", "8", "9"}
            /\ position = "appendRandomString()" =>
                   call.min = 0 /\ call.max = 40

C20_Witness ==
    /\ position = "appendRandomString()"
    /\ Len(suffixes) = 1
    /\ Len(suffixes[1].out) = 40
    /\ suffixes[1].out[2] = "9"

\* C23: the delay that createResource sleeps after a kubectl apply always lies
\* between DELAY/100 and 2*DELAY milliseconds (100 ms and 20000 ms), whatever
\* Math.random() gives.
C23_DelayWithinBounds ==
    \A i \in 1..Len(trace) :
        trace[i].op = "sleep" =>
            /\ DELAY \div 100 <= trace[i].n
            /\ trace[i].n <= 2 * DELAY

\* The name that the k-th apply of a run of the script kind carries: the one
\* made for the k-th value of the loop index, with the k-th suffix of made.
ExpectedName(kind, plan, made, k) ==
    ConfigName(kind, FirstIndex(kind) + k - 1, plan,
               IF HasSuffix(kind) THEN made[k].out ELSE <<>>)

\* Every apply that a step adds to the trace carries the name made for its
\* place in the loop, follows only successful applies of other names, and is
\* separated from each of them by a sleep; the trace only grows.
C24_ApplyStep ==
    /\ Len(trace') >= Len(trace)
    /\ SubSeq(trace', 1, Len(trace)) = trace
    /\ \A i \in (Len(trace) + 1)..Len(trace') :
           IsApply(trace'[i]) =>
               LET before == {j \in 1..(i - 1) : IsApply(trace'[j])}
                   k      == Cardinality(before) + 1
               IN  /\ k <= Len(suffixes') \/ ~HasSuffix(script')
                   /\ trace'[i].text =
                          ExpectedName(script', releasePlan', suffixes', k)
                   /\ \A j \in before :
                          /\ trace'[j].ok
                          /\ trace'[j].text # trace'[i].text
                          /\ \E m \in (j + 1)..(i - 1) : trace'[m].op = "sleep"

\* A failed apply has ended the run with status 1.
C24_FailedApplyEnds ==
    \A i \in Applies :
        ~trace[i].ok => position = "exited" /\ exitCode = 1

\* C24: in every generator script the kubectl apply calls are issued in
\* strictly increasing order of the loop index, each config at most once and
\* without retry, and an apply is started only after the apply before it has
\* succeeded and the sleep after it has ended.
C24_AppliesInOrder ==
    []C24_FailedApplyEnds /\ [][C24_ApplyStep]_vars

C24_Witness ==
    /\ script = "releases"
    /\ count = 5
    /\ Cardinality(Applies) = 5
    /\ \A i \in Applies : trace[i].ok
    /\ trace[Len(trace)].op = "sleep"

\* The prefix of the names of a script, up to the dash before the loop index.
KindPrefix ==
    CASE script = "applications"    -> PrefixApplication
      [] script = "components"      -> PrefixComponent
      [] script = "integrationtest" -> PrefixIntegration
      [] script = "releases"        -> releasePlan \o Dash
      [] script = "mock_components" -> PrefixMock
      [] OTHER                      -> <<>>

\* name is the prefix, a loop index, a dash and a string that a call of
\* appendRandomString returned in this run.
HasNameForm(name) ==
    \E i \in FirstIndex(script)..LastIndex(script, count) :
        \E k \in 1..Len(suffixes) :
            name = KindPrefix \o DecimalString(i) \o Dash \o suffixes[k].out

\* C25: every metadata.name that a generator script produces has the form
\* <kind-specific-prefix>-<loop-index>-<randomSuffix>, the last segment
\* being a string produced by the random suffix generator.
C25_NameHasSuffix ==
    /\ \A i \in Applies : HasNameForm(trace[i].text)
    /\ script \in TemplateScripts =>
           \A k \in 1..Len(allConfigs) : HasNameForm(NameOf(k))

(***************************************************************************)
(* mock components: makeSpec                                               *)
(***************************************************************************)
\* const commonSource = { url: ..., dockerfileUri: "Dockerfile" }
commonSource ==
    [url |-> <<"h","t","t","p","s",":","/","/","g","i","t","h","u","b",
              ".","c","o","m","/","e","x","a","m","p","l","e","-","o",
              "r","g","/","e","x","a","m","p","l","e","-","r","e","p",
              "o">>,
     dockerfileUri |-> <<"D","o","c","k","e","r","f","i","l","e">>]

\* { ...source, versions }: the properties of source, and versions.
WithVersions(source, versions) ==
    [f \in DOMAIN source \cup {"versions"} |->
        IF f = "versions" THEN versions ELSE source[f]]

\* Array.from({ length: 10 }, (_, idx) => ({ name: `v${idx + 1}`, ... }))
TenVersions ==
    [k \in 1..10 |->
        [name |-> <<"v">> \o DecimalString(k),
         revision |-> <<"b","r","a","n","c","h","-","v">> \o DecimalString(k)]]

\* Faulty variant of variant: the index is reduced modulo 7.
variant_mod7(i) ==
    i % 7

\* const variant = i % 6
variant(i) ==
    i % 6

\* makeSpec: what it returns if (variant === 0)
SpecVariant0 ==
    [source |-> WithVersions(commonSource, <<>>)]

\* makeSpec: what it returns if (variant === 1)
SpecVariant1 ==
    [source |->
         WithVersions(commonSource,
             <<[name |-> <<"m","a","i","n">>,
                revision |-> <<"m","a","i","n">>]>>)]

\* makeSpec: what it returns if (variant === 2)
SpecVariant2 ==
    [containerImage |-> <<"q","u","a","y",".","i","o","/","e","x","a","m","p","l",
                          "e","-","o","r","g","/","e","x","a","m","p","l","e","-",
                          "c","o","m","p","o","n","e","n","t">>,
     repositorySettings |->
         [commentStrategy |-> <<"d","i","s","a","b","l","e","_","a","l","l">>],
     source |->
         WithVersions(commonSource,
             <<[name |-> <<"V","e","r","s","i","o","n","_","1","_","0">>,
                revision |-> <<"v","e","r","-","1",".","0">>],
               [name |-> <<"T","e","s","t">>,
                revision |-> <<"t","e","s","t">>,
                context |-> <<".","/","t","e","s","t">>,
                dockerfileUri |-> <<"t","e","s","t",".","D","o","c","k","e","r","f","i","l",
                                    "e">>,
                skipBuilds |-> TRUE]>>)]

\* makeSpec: what it returns if (variant === 3)
SpecVariant3 ==
    [skipOffboardingPr |-> TRUE,
     actions |->
         [triggerPushBuild |-> <<"m","a","i","n">>,
          triggerPushBuilds |->
              <<<<"m","a","i","n">>,
                <<"T","e","s","t">>>>,
          createPipelineConfigurationPr |->
              [allVersions |-> FALSE,
               versions |->
                   <<<<"m","a","i","n">>,
                     <<"T","e","s","t">>>>]],
     source |->
         WithVersions(commonSource,
             <<[name |-> <<"m","a","i","n">>,
                revision |-> <<"m","a","i","n">>],
               [name |-> <<"T","e","s","t">>,
                revision |-> <<"t","e","s","t">>]>>)]

\* makeSpec: what it returns if (variant === 4)
SpecVariant4 ==
    [defaultBuildPipeline |->
         [pullAndPush |->
              [pipelineSpecFromBundle |->
                   [name |-> <<"d","o","c","k","e","r","-","b","u","i","l","d","-","o",
                               "c","i","-","t","a">>,
                    bundle |-> <<"l","a","t","e","s","t">>]]],
     source |->
         WithVersions(commonSource,
             <<[name |-> <<"D","i","f","f","e","r","e","n","t","P","i","p","e","l",
                           "i","n","e">>,
                revision |-> <<"d","i","f","f","e","r","e","n","t","_","b","r","a","n",
                               "c","h">>,
                buildPipeline |->
                    [pullAndPush |->
                         [pipelineSpecFromBundle |->
                              [name |-> <<"d","o","c","k","e","r","-","b","u","i","l","d","-","o",
                                          "c","i","-","t","a">>,
                               bundle |-> <<"l","a","t","e","s","t">>]]]]>>)]

\* makeSpec: what it returns at its end, for variant 5
SpecVariant5 ==
    [containerImage |-> <<"q","u","a","y",".","i","o","/","e","x","a","m","p","l",
                         "e","-","o","r","g","/","e","x","a","m","p","l","e","-",
                         "c","o","m","p","o","n","e","n","t">>,
     source |-> WithVersions(commonSource, TenVersions)]

\* function makeSpec(i)
makeSpec(i) ==
    CASE variant(i) = 0 -> SpecVariant0
      [] variant(i) = 1 -> SpecVariant1
      [] variant(i) = 2 -> SpecVariant2
      [] variant(i) = 3 -> SpecVariant3
      [] variant(i) = 4 -> SpecVariant4
      [] OTHER          -> SpecVariant5

MaxSpecIndex ==
    13

\* makeSpec(i), for any index, twice in one behaviour.
CallMakeSpec ==
    /\ script = "none"
    /\ Len(madeSpecs) < 2
    /\ \E i \in 0..(MaxSpecIndex + 6) :
           madeSpecs' = Append(madeSpecs, [i |-> i, spec |-> makeSpec(i)])
    /\ UNCHANGED <<closeVars, genVars, kuiVars>>

NextMakeSpec ==
    CallMakeSpec

InitMakeSpec ==
    /\ CloseIdle
    /\ GenIdle
    /\ MadeIdle
    /\ KuiIdle

SpecMakeSpec ==
    InitMakeSpec /\ [][NextMakeSpec]_vars

\* The number of source.versions entries for the remainders 0 to 5.
VersionCounts ==
    <<0, 1, 2, 2, 1, 10>>

\* C26: makeSpec(i) is a function of i mod 6 only, so that makeSpec(i) is
\* makeSpec(i + 6) for every i >= 0, and the number of source.versions
\* entries is 0, 1, 2, 2, 1, 10 for i mod 6 = 0, 1, 2, 3, 4, 5.
C26_MakeSpecPeriodic ==
    /\ \A a \in 1..Len(madeSpecs) :
           Len(madeSpecs[a].spec.source.versions) = VersionCounts[(madeSpecs[a].i % 6) + 1]
    /\ \A a \in 1..Len(madeSpecs) : \A b \in 1..Len(madeSpecs) :
           (madeSpecs[a].i % 6 = madeSpecs[b].i % 6) => madeSpecs[a].spec = madeSpecs[b].spec

C26_Witness ==
    /\ Len(madeSpecs) = 2
    /\ madeSpecs[1].i = 5
    /\ madeSpecs[2].i = 11
    /\ Len(madeSpecs[2].spec.source.versions) = 10
    /\ madeSpecs[2].spec.source.versions[10].name = <<"v", "1", "0">>

(***************************************************************************)
(* Every answer to the count questions                                     *)
(***************************************************************************)
MaxCountAnswerLen ==
    2

CountAlphabet ==
    {"0", "1", "-", "+", " ", "a"}

RECURSIVE CountAnswersOf(_)
CountAnswersOf(n) ==
    IF n = 0 THEN {<<>>}
    ELSE LET shorter == CountAnswersOf(n - 1)
         IN  shorter \cup {Append(a, c) : a \in shorter, c \in CountAlphabet}

CountInputs ==
    [GenInputs EXCEPT
        !.proceed = {<<"y">>},
        !.kubectl = {KubectlFailed},
        !.useCurrentNs = {<<"y">>},
        !.count = CountAnswersOf(MaxCountAnswerLen),
        !.populateStatus = {<<>>},
        !.releasePlan = {<<"p","l","a","n","-","a">>},
        !.snapshot = {<<"s","n","a","p","-","1">>},
        !.numberOfReleases = CountAnswersOf(MaxCountAnswerLen),
        !.apply = {TRUE}]

NextCount ==
    \/ PromptForReleaseDetails(CountInputs)
    \/ ValidateRelease
    \/ PromptForCount(CountInputs)
    \/ PromptForPopulateStatus(CountInputs)
    \/ SafetyCheck(CountInputs)
    \/ GetCurrentNamespace(CountInputs)
    \/ PromptForNamespace(CountInputs)
    \/ Materialize
    \/ CreateResource(CountInputs)
    \/ CreateMockComponent(CountInputs)
    \/ Finish

\* The two scripts that ask for a count, whatever is typed.
SpecCount ==
    InitGen({"mock_components", "releases"}, {<<0>>}) /\ [][NextCount]_vars

CountQuestions ==
    {i \in 1..Len(trace) : \/ IsQuestion(trace[i], "count")
                           \/ IsQuestion(trace[i], "numberOfReleases")}

\* C27: the count of the mock-components and releases scripts is always a
\* positive integer: the parsed integer of the answer when that is greater
\* than 0, and otherwise (empty, not a number, zero or negative) the default
\* of the script, 25 or 5; this count is the one given to the safety gate and
\* the bound of the loop.
C27_CountPositive ==
    /\ \A i \in CountQuestions :
           LET n == parseInt(trace[i].text)
           IN  /\ count \in Nat \ {0}
               /\ count = IF ~n.nan /\ n.value > 0 THEN n.value
                          ELSE IF script = "releases" THEN 5 ELSE 25
    /\ \A i \in 1..Len(trace) :
           (\/ IsLog(trace[i], "caution")
            \/ IsLog(trace[i], "creating")
            \/ IsLog(trace[i], "configuration")) => trace[i].n = count
    /\ (GateReturnedTrue /\ count > 10) =>
           \E i \in 1..Len(trace) : IsLog(trace[i], "caution")
    /\ RunSucceeded => Cardinality(Applies) = count

C27_Witness ==
    /\ script = "releases"
    /\ \E i \in CountQuestions : trace[i].text = <<"-", "1">>
    /\ count = 5
    /\ RunSucceeded
    /\ Cardinality(Applies) = 5

\* C30: in the mock-components script a status patch is issued for a
\* component only when status population was enabled and only after the
\* kubectl apply of that component succeeded and its delay elapsed; it is
\* issued at most once per component, before the apply of the next one, and
\* never for a component whose creation failed.
C30_PatchFollowsCreate ==
    script = "mock_components" =>
        LET patches == Patches
            applies == Applies
            failed  == {a \in applies : ~trace[a].ok}
        IN  /\ \A p \in patches :
                   /\ populateStatus
                   /\ p >= 4
                   /\ IsApply(trace[p - 3])
                   /\ trace[p - 3].ok
                   /\ trace[p - 3].text = trace[p].text
                   /\ trace[p - 3].ns = trace[p].ns
                   /\ trace[p - 1].op = "sleep"
            /\ \A p \in patches : \A q \in patches :
                   p < q => trace[p].text # trace[q].text
            /\ \A a \in failed : \A p \in patches :
                   trace[a].text # trace[p].text
            /\ \A a \in applies :
                   (populateStatus /\ trace[a].ok /\ a + 3 <= Len(trace)) =>
                       /\ IsPatch(trace[a + 3])
                       /\ trace[a + 3].text = trace[a].text

C30_Witness ==
    /\ script = "mock_components"
    /\ populateStatus
    /\ count = 2
    /\ Cardinality(Patches) = 1
    /\ Cardinality(Applies) = 2
    /\ \E a \in Applies : ~trace[a].ok
    /\ position = "exited"

\* The sum of the five counters of close_issues.sh.
CounterSum ==
    SUCCESS_COUNT + ALREADY_CLOSED_COUNT + NOT_RELEASE_PENDING_COUNT
        + SKIPPED_COUNT + FAILED_COUNT

\* A step adds to the counters as many as the calls of process_issue it ends:
\* none or one, and never more than one to a counter.
C28_CountStep ==
    /\ processed' \in {processed, processed + 1}
    /\ CounterSum' = CounterSum + (processed' - processed)
    /\ SUCCESS_COUNT' \in {SUCCESS_COUNT, SUCCESS_COUNT + 1}
    /\ ALREADY_CLOSED_COUNT' \in {ALREADY_CLOSED_COUNT, ALREADY_CLOSED_COUNT + 1}
    /\ NOT_RELEASE_PENDING_COUNT' \in
           {NOT_RELEASE_PENDING_COUNT, NOT_RELEASE_PENDING_COUNT + 1}
    /\ SKIPPED_COUNT' \in {SKIPPED_COUNT, SKIPPED_COUNT + 1}
    /\ FAILED_COUNT' \in {FAILED_COUNT, FAILED_COUNT + 1}

C28_CountersAddUp ==
    /\ CounterSum = processed
    /\ Len(NON_RELEASE_PENDING_ISSUES) = NOT_RELEASE_PENDING_COUNT
    /\ (pc = "exited" /\ exitAt = "end_of_main") => CounterSum = Len(issues)

\* C28: every call of process_issue adds exactly one to exactly one of
\* SUCCESS_COUNT, ALREADY_CLOSED_COUNT, NOT_RELEASE_PENDING_COUNT,
\* SKIPPED_COUNT and FAILED_COUNT, so that at the summary the five counters
\* sum to the number of extracted keys and the manual-review list has
\* NOT_RELEASE_PENDING_COUNT entries.
C28_EveryIssueCountedOnce ==
    /\ []C28_CountersAddUp
    /\ [][C28_CountStep]_vars

C28_Witness ==
    /\ pc = "exited"
    /\ exitAt = "end_of_main"
    /\ Len(issues) = 2
    /\ SUCCESS_COUNT = 1
    /\ NOT_RELEASE_PENDING_COUNT = 1
    /\ Len(NON_RELEASE_PENDING_ISSUES) = 1

\* The call e is a comment POST that the tracker refused.
CommentFailed(e) ==
    e.op = "POST_comment" /\ e.code \notin {<<"2","0","1">>, <<"2","0","0">>}

\* The step POSTed a comment that failed: nothing is counted and the issue
\* goes on to its transition.
C29_CommentStep ==
    (Len(log') > Len(log) /\ CommentFailed(log'[Len(log')])) =>
        /\ UNCHANGED countVars
        /\ processed' = processed
        /\ pc' = "transition"

\* After a comment that failed the transitions of the same issue are
\* fetched, and the issue is counted by what its transition gave.
C29_TransitionAfterComment ==
    /\ \A c \in 1..Len(log) :
           CommentFailed(log[c]) =>
               \/ c = Len(log) /\ pc = "transition"
               \/ \E g \in {c + 1, c + 2} :
                      /\ g <= Len(log)
                      /\ log[g].op = "GET_transitions"
                      /\ log[g].key = log[c].key
                      /\ g = c + 2 => log[c + 1].op = "sleep"
    /\ SUCCESS_COUNT =
           Cardinality({g \in 1..Len(log) : /\ log[g].op = "GET_transitions"
                                            /\ TransitionSucceeded(g)})
    /\ pc # "transition" =>
           FAILED_COUNT =
               Cardinality({g \in 1..Len(log) : /\ log[g].op = "GET_transitions"
                                                /\ ~TransitionSucceeded(g)})
                 + Cardinality({g \in 1..Len(log) : /\ log[g].op = "GET_issue"
                                                    /\ ~FetchedOk(log[g])})

\* C29: a comment POST that fails for an eligible issue neither adds to
\* FAILED_COUNT nor ends the processing of the issue: its transition is
\* attempted afterwards, and the issue is counted as closed or failed by the
\* outcome of transition_issue alone.
C29_CommentFailureIgnored ==
    /\ []C29_TransitionAfterComment
    /\ [][C29_CommentStep]_vars

C29_Witness ==
    /\ pc = "exited"
    /\ exitStatus = 0
    /\ SUCCESS_COUNT = 1
    /\ FAILED_COUNT = 0
    /\ \E c \in 1..Len(log) : CommentFailed(log[c])

(***************************************************************************)
(* dev/create-kui-pr.sh: reading and writing the SHA of a kustomization    *)
(* file. A file is a sequence of lines.                                    *)
(***************************************************************************)
\* [0-9a-fA-F]
HexChars ==
    DigitSet \cup {"a", "b", "c", "d", "e", "f", "A", "B", "C", "D", "E", "F"}

\* The repetition count of [0-9a-fA-F]{40}.
ShaLength ==
    40

\* [0-9a-fA-F]{40} matches line from position k on.
IsHexRun(line, k) ==
    /\ k >= 1
    /\ k + ShaLength - 1 <= Len(line)
    /\ \A j \in k..(k + ShaLength - 1) : line[j] \in HexChars

HexRuns(line) ==
    {k \in 1..Len(line) : IsHexRun(line, k)}

ShaAt(line, k) ==
    SubSeq(line, k, k + ShaLength - 1)

\* validate_sha: ^[0-9a-fA-F]{40}$
validate_sha(sha) ==
    /\ Len(sha) = ShaLength
    /\ \A j \in 1..Len(sha) : sha[j] \in HexChars

NewTag ==
    <<"n","e","w","T","a","g",":">>

\* The first position from k on that holds no white space (\s*).
RECURSIVE SkipSpace(_, _)
SkipSpace(line, k) ==
    IF k <= Len(line) /\ line[k] \in WhitespaceChars
    THEN SkipSpace(line, k + 1)
    ELSE k

\* newTag:\s*[0-9a-fA-F]{40}: where the SHAs that follow newTag: begin.
NewTagShas(line) ==
    {SkipSpace(line, p + Len(NewTag)) :
         p \in {q \in 1..(Len(line) - Len(NewTag) + 1) :
                    SubSeq(line, q, q + Len(NewTag) - 1) = NewTag}}
        \cap HexRuns(line)

\* extract_sha_from_kustomization: the SHA after newTag: on the first line
\* that has one (the last one of that line, .* being greedy), else the first
\* run of 40 hexadecimal digits of the file; status 1 without file or SHA.
extract_sha_from_kustomization(file) ==
    IF ~file.exists THEN [rc |-> 1, sha |-> <<>>]
    ELSE LET tagged == {n \in 1..Len(file.lines) :
                            NewTagShas(file.lines[n]) # {}}
             any    == {n \in 1..Len(file.lines) : HexRuns(file.lines[n]) # {}}
         IN  IF tagged # {}
             THEN LET line == file.lines[SetMin(tagged)]
                  IN  [rc |-> 0, sha |-> ShaAt(line, SetMax(NewTagShas(line)))]
             ELSE IF any # {}
             THEN LET line == file.lines[SetMin(any)]
                  IN  [rc |-> 0, sha |-> ShaAt(line, SetMin(HexRuns(line)))]
             ELSE [rc |-> 1, sha |-> <<>>]

\* extract_sha_line14 (earlier version): line n of the file through
\* s/.*([0-9a-fA-F]{40}).*/\1/p, the last run of the line; nothing when the
\* file or the line is missing or the line has no run.
extract_sha_line14(file, n) ==
    IF ~file.exists \/ Len(file.lines) < n \/ HexRuns(file.lines[n]) = {}
    THEN <<>>
    ELSE ShaAt(file.lines[n], SetMax(HexRuns(file.lines[n])))

\* s/old/new/g on one line.
RECURSIVE ReplaceAll(_, _, _)
ReplaceAll(line, old, new) ==
    IF Len(line) < Len(old) \/ old = <<>> THEN line
    ELSE IF SubSeq(line, 1, Len(old)) = old
    THEN new \o ReplaceAll(SubSeq(line, Len(old) + 1, Len(line)), old, new)
    ELSE <<line[1]>> \o ReplaceAll(Tail(line), old, new)

\* update_sha_in_kustomization: sed -i "s/${old_sha}/${new_sha}/g", then
\* grep -q "$new_sha"; the file after it and the status.
update_sha_in_kustomization(file, old_sha, new_sha) ==
    IF ~file.exists \/ ~validate_sha(new_sha)
    THEN [rc |-> 1, file |-> file]
    ELSE LET lines == [n \in 1..Len(file.lines) |->
                          ReplaceAll(file.lines[n], old_sha, new_sha)]
         IN  [rc   |-> IF \E n \in 1..Len(lines) : Contains(lines[n], new_sha)
                       THEN 0 ELSE 1,
              file |-> [file EXCEPT !.lines = lines]]

\* The earlier version: awk 'NR==14{ sub(/[0-9a-fA-F]{40}/, tgt) }', then
\* grep -q "$TARGET_SHA" on line 14.
update_line14(file, tgt) ==
    LET has   == Len(file.lines) >= 14
        line  == file.lines[14]
        now   == IF has /\ HexRuns(line) # {}
                 THEN LET k == SetMin(HexRuns(line))
                      IN  SubSeq(line, 1, k - 1) \o tgt
                              \o SubSeq(line, k + ShaLength, Len(line))
                 ELSE IF has THEN line ELSE <<>>
    IN  [rc   |-> IF Contains(now, tgt) THEN 0 ELSE 1,
         file |-> IF has THEN [file EXCEPT !.lines[14] = now] ELSE file]

\* short_sha: ${sha:0:12}
short_sha(sha) ==
    SubSeq(sha, 1, IF Len(sha) < 12 THEN Len(sha) ELSE 12)

(***************************************************************************)
(* dev/create-kui-pr.sh: the run of the script, section by section. What   *)
(* the commands outside the script answer (the clones, the generator, git) *)
(* is an input of the section that runs them.                              *)
(***************************************************************************)
KuiEv(op, arg) ==
    [op |-> op, arg |-> arg]

\* exit, or the end of the script.
KuiExitWith(status) ==
    /\ kuiPc' = "exited"
    /\ kuiExit' = status

\* The status of a command that fails under set -e.
ErrexitStatuses ==
    {1, 128}

\* DRY_RUN="${DRY_RUN:-false}"
DryRunOf(env) ==
    IF env.DRY_RUN = "" THEN "false" ELSE env.DRY_RUN

\* Faulty variant of IsDryRun: the push is never skipped.
IsDryRun_never(dry) ==
    FALSE

\* [[ "$DRY_RUN" == "true" ]]
IsDryRun(dry) ==
    dry = "true"

\* Faulty variant of AfterExtract: identical SHAs do not end the run.
AfterExtract_always(base, target) ==
    "changelog"

\* [[ "$BASE_SHA" == "$TARGET_SHA" ]] ends the run, else the changelog is next.
AfterExtract(base, target) ==
    IF base = target THEN "no_changes" ELSE "changelog"

\* The loop over the commands the script needs, and gh auth status.
DependencyChecks(in) ==
    /\ kuiPc = "dependency_checks"
    /\ IF in.missing
       THEN /\ kuiLog' = Append(kuiLog, KuiEv("error", "Missing dependency"))
            /\ KuiExitWith(1)
       ELSE IF ~in.authenticated
       THEN /\ kuiLog' = Append(kuiLog, KuiEv("gh auth status", "failed"))
            /\ KuiExitWith(1)
       ELSE /\ kuiLog' = Append(kuiLog, KuiEv("gh auth status", "ok"))
            /\ kuiPc' = "clone_upstream"
            /\ UNCHANGED kuiExit
    /\ UNCHANGED <<kuiVersion, kuiEnv, BASE_SHA, TARGET_SHA, upstreamClone,
                   forkFile, githubOutput>>
    /\ UNCHANGED <<closeVars, genVars, madeSpecs>>

\* gh repo clone "$UPSTREAM_REPO" "$ROOT/infra-upstream"
CloneUpstream(in) ==
    /\ kuiPc = "clone_upstream"
    /\ kuiLog' = Append(kuiLog, KuiEv("gh repo clone", "infra-upstream"))
    /\ IF in.ok
       THEN /\ upstreamClone' = in.clone
            /\ kuiPc' = "extract"
            /\ UNCHANGED kuiExit
       ELSE /\ KuiExitWith(IF kuiVersion = "current" THEN 1 ELSE in.status)
            /\ UNCHANGED upstreamClone
    /\ UNCHANGED <<kuiVersion, kuiEnv, BASE_SHA, TARGET_SHA, forkFile,
                   githubOutput>>
    /\ UNCHANGED <<closeVars, genVars, madeSpecs>>

\* BASE_SHA and TARGET_SHA are read, checked and compared.
ExtractShas ==
    /\ kuiPc = "extract"
    /\ LET base   == extract_sha_from_kustomization(upstreamClone.prod)
           target == extract_sha_from_kustomization(upstreamClone.stg)
           b14    == extract_sha_line14(upstreamClone.prod, 14)
           t15    == extract_sha_line14(upstreamClone.stg, 15)
           failed == IF kuiVersion = "current"
                     THEN \/ base.rc # 0
                          \/ target.rc # 0
                          \/ ~validate_sha(base.sha)
                          \/ ~validate_sha(target.sha)
                     ELSE b14 = <<>> \/ t15 = <<>>
           b      == IF kuiVersion = "current" THEN base.sha ELSE b14
           t      == IF kuiVersion = "current" THEN target.sha ELSE t15
       IN  IF failed
           THEN /\ kuiLog' = Append(kuiLog, KuiEv("error", "Failed to extract SHAs"))
                /\ KuiExitWith(1)
                /\ UNCHANGED <<BASE_SHA, TARGET_SHA>>
           ELSE /\ BASE_SHA' = b
                /\ TARGET_SHA' = t
                /\ IF AfterExtract(b, t) = "no_changes"
                   THEN /\ kuiLog' = Append(kuiLog,
                                         KuiEv("info", "No changes detected"))
                        /\ KuiExitWith(0)
                   ELSE /\ kuiPc' = "changelog"
                        /\ UNCHANGED <<kuiLog, kuiExit>>
    /\ UNCHANGED <<kuiVersion, kuiEnv, upstreamClone, forkFile, githubOutput>>
    /\ UNCHANGED <<closeVars, genVars, madeSpecs>>

\* The clone of konflux-ui and the run of generate-kui-changelog.sh.
GenerateChangelog(in) ==
    /\ kuiPc = "changelog"
    /\ LET clone == KuiEv("gh repo clone", "konflux-ui")
           gen   == KuiEv("generate-kui-changelog.sh", in.changelog)
       IN  IF ~in.executable
           THEN IF kuiVersion = "current"
                THEN /\ kuiLog' = Append(kuiLog,
                                      KuiEv("error", "generator not executable"))
                     /\ KuiExitWith(1)
                ELSE IF ~in.ok
                THEN /\ kuiLog' = Append(kuiLog, clone)
                     /\ KuiExitWith(in.status)
                ELSE /\ kuiLog' = kuiLog \o <<clone, KuiEv("generate-kui-changelog.sh",
                                                          "not run")>>
                     /\ KuiExitWith(126)
           ELSE IF ~in.ok
           THEN /\ kuiLog' = Append(kuiLog, clone)
                /\ KuiExitWith(IF kuiVersion = "current" THEN 1 ELSE in.status)
           ELSE /\ kuiLog' = kuiLog \o <<clone, gen>>
                /\ IF in.changelog = "failed"
                   THEN KuiExitWith(IF kuiVersion = "current" THEN 1
                                    ELSE in.status)
                   ELSE IF \/ in.changelog = "missing"
                           \/ in.changelog = "empty" /\ kuiVersion = "current"
                   THEN KuiExitWith(1)
                   ELSE /\ kuiPc' = "clone_fork"
                        /\ UNCHANGED kuiExit
    /\ UNCHANGED <<kuiVersion, kuiEnv, BASE_SHA, TARGET_SHA, upstreamClone,
                   forkFile, githubOutput>>
    /\ UNCHANGED <<closeVars, genVars, madeSpecs>>

\* The clone that is changed, its remotes, the branch, and the test for the
\* production file.
CloneFork(in) ==
    /\ kuiPc = "clone_fork"
    /\ LET clone    == KuiEv("gh repo clone", "infra-fork")
           remotes  == KuiEv("git remote", "upstream downstream")
           checkout == KuiEv("git checkout -b", IF in.checkout THEN "ok"
                                                ELSE "failed")
       IN  IF ~in.ok
           THEN /\ kuiLog' = Append(kuiLog, clone)
                /\ KuiExitWith(IF kuiVersion = "current" THEN 1 ELSE in.status)
                /\ UNCHANGED forkFile
           ELSE IF ~in.checkout
           THEN /\ kuiLog' = kuiLog \o <<clone, remotes, checkout>>
                /\ KuiExitWith(in.status)
                /\ UNCHANGED forkFile
           ELSE /\ kuiLog' = kuiLog \o <<clone, remotes, checkout>>
                /\ forkFile' = in.file
                /\ IF ~in.file.exists
                   THEN KuiExitWith(1)
                   ELSE /\ kuiPc' = "update"
                        /\ UNCHANGED kuiExit
    /\ UNCHANGED <<kuiVersion, kuiEnv, BASE_SHA, TARGET_SHA, upstreamClone,
                   githubOutput>>
    /\ UNCHANGED <<closeVars, genVars, madeSpecs>>

\* The production file gets the staging SHA; a failed update ends the run
\* with status 1, a file that git diff --quiet finds unchanged with status 0.
UpdateProductionFile ==
    /\ kuiPc = "update"
    /\ LET r == IF kuiVersion = "current"
                THEN update_sha_in_kustomization(forkFile, BASE_SHA, TARGET_SHA)
                ELSE update_line14(forkFile, TARGET_SHA)
       IN  /\ forkFile' = r.file
           /\ IF r.rc # 0
              THEN /\ kuiLog' = Append(kuiLog, KuiEv("error", "Failed to update SHA"))
                   /\ KuiExitWith(1)
              ELSE IF r.file = forkFile
              THEN /\ kuiLog' = Append(kuiLog, KuiEv("warn", "No changes after update"))
                   /\ KuiExitWith(0)
              ELSE /\ kuiPc' = "commit"
                   /\ UNCHANGED <<kuiLog, kuiExit>>
    /\ UNCHANGED <<kuiVersion, kuiEnv, BASE_SHA, TARGET_SHA, upstreamClone,
                   githubOutput>>
    /\ UNCHANGED <<closeVars, genVars, madeSpecs>>

\* git add and git commit.
CommitChanges(in) ==
    /\ kuiPc = "commit"
    /\ kuiLog' = kuiLog \o <<KuiEv("git add", "PROD_FILE"),
                             KuiEv("git commit", short_sha(BASE_SHA) \o <<"=">>
                                                     \o short_sha(TARGET_SHA))>>
    /\ IF in.ok
       THEN /\ kuiPc' = "push"
            /\ UNCHANGED kuiExit
       ELSE KuiExitWith(in.status)
    /\ UNCHANGED <<kuiVersion, kuiEnv, BASE_SHA, TARGET_SHA, upstreamClone,
                   forkFile, githubOutput>>
    /\ UNCHANGED <<closeVars, genVars, madeSpecs>>

\* git push downstream "$BRANCH_NAME", which the current version leaves out
\* in a dry run.
PushOrDryRun(in) ==
    /\ kuiPc = "push"
    /\ IF kuiVersion = "current" /\ IsDryRun(DryRunOf(kuiEnv))
       THEN /\ kuiLog' = Append(kuiLog, KuiEv("warn", "[DRY RUN] Would push branch"))
            /\ kuiPc' = "export"
            /\ UNCHANGED kuiExit
       ELSE /\ kuiLog' = Append(kuiLog, KuiEv("git push", "downstream"))
            /\ IF in.ok
               THEN /\ kuiPc' = "export"
                    /\ UNCHANGED kuiExit
               ELSE KuiExitWith(IF kuiVersion = "current" THEN 1 ELSE in.status)
    /\ UNCHANGED <<kuiVersion, kuiEnv, BASE_SHA, TARGET_SHA, upstreamClone,
                   forkFile, githubOutput>>
    /\ UNCHANGED <<closeVars, genVars, madeSpecs>>

\* The keys in the order the current version writes them.
OutputKeys ==
    <<"base_sha", "target_sha", "branch_name", "pr_title", "changelog_content">>

\* The keys in the order the earlier version writes them.
OutputKeysEarlier ==
    <<"base_sha", "target_sha", "branch_name", "changelog_content", "pr_title">>

\* The outputs for GitHub Actions, and the end of the script.
ExportOutputs ==
    /\ kuiPc = "export"
    /\ githubOutput' = IF kuiEnv.GITHUB_OUTPUT = "" THEN githubOutput
                       ELSE IF kuiVersion = "current"
                       THEN githubOutput \o OutputKeys
                       ELSE githubOutput \o OutputKeysEarlier
    /\ kuiLog' = Append(kuiLog, KuiEv("info", "Done"))
    /\ KuiExitWith(0)
    /\ UNCHANGED <<kuiVersion, kuiEnv, BASE_SHA, TARGET_SHA, upstreamClone,
                   forkFile>>
    /\ UNCHANGED <<closeVars, genVars, madeSpecs>>

(***************************************************************************)
(* dev/create-kui-pr.sh: the files, answers and environments the runs are  *)
(* checked with.                                                           *)
(***************************************************************************)
SampleShas ==
    {Rep("a", ShaLength), Rep("0", ShaLength - 1) \o <<"F">>}

OtherSha ==
    Rep("c", ShaLength)

FillerLine ==
    <<"#">>

\* A kustomization.yaml of 15 lines whose line n is text.
FileWithLine(n, text) ==
    [exists |-> TRUE,
     lines  |-> [k \in 1..15 |-> IF k = n THEN text ELSE FillerLine]]

\* "  newTag: <sha>" on line n.
TagFile(sha, n) ==
    FileWithLine(n, <<" ", " ">> \o NewTag \o <<" ">> \o sha)

\* "  digest: sha256:<sha>" on line n, a SHA without newTag:.
DigestFile(sha, n) ==
    FileWithLine(n, <<" ","d","i","g","e","s","t",":"," ">> \o sha)

\* A file without any SHA.
PlainFile ==
    FileWithLine(14, <<" ", " ">> \o NewTag \o <<" ","l","a","t","e","s","t">>)

ProdFiles ==
    {TagFile(s, 14) : s \in SampleShas}
        \cup {TagFile(Rep("a", ShaLength), 3), DigestFile(Rep("a", ShaLength), 14),
              PlainFile, NoFile}

StgFiles ==
    {TagFile(s, 15) : s \in SampleShas}
        \cup {TagFile(Rep("a", ShaLength), 3), PlainFile, NoFile}

UpstreamClones ==
    [prod : ProdFiles, stg : StgFiles]

\* The production file of the second clone: the one read before, one that
\* holds the staging SHA already, one that holds neither SHA, or none.
ForkFiles ==
    {upstreamClone.prod, TagFile(TARGET_SHA, 14), TagFile(OtherSha, 14),
     NoFile}

DryRunValues ==
    {"", "true", "false", "TRUE"}

KuiEnvironments ==
    [DRY_RUN : DryRunValues, GITHUB_OUTPUT : {"", "/tmp/github_output"}]

ChangelogResults ==
    {"failed", "missing", "empty", "written"}

InitKui ==
    /\ CloseIdle
    /\ GenIdle
    /\ MadeIdle
    /\ kuiVersion \in {"current", "earlier"}
    /\ kuiPc = "dependency_checks"
    /\ kuiEnv \in KuiEnvironments
    /\ BASE_SHA = <<>>
    /\ TARGET_SHA = <<>>
    /\ upstreamClone = [prod |-> NoFile, stg |-> NoFile]
    /\ forkFile = NoFile
    /\ kuiLog = <<>>
    /\ githubOutput = <<>>
    /\ kuiExit = -1

NextKui ==
    \/ \E in \in [missing : BOOLEAN, authenticated : BOOLEAN] :
           DependencyChecks(in)
    \/ \E in \in [ok : BOOLEAN, status : ErrexitStatuses, clone : UpstreamClones] :
           CloneUpstream(in)
    \/ ExtractShas
    \/ \E in \in [executable : BOOLEAN, ok : BOOLEAN, status : ErrexitStatuses,
                  changelog : ChangelogResults] :
           GenerateChangelog(in)
    \/ \E in \in [ok : BOOLEAN, checkout : BOOLEAN, status : ErrexitStatuses,
                  file : ForkFiles] :
           CloneFork(in)
    \/ UpdateProductionFile
    \/ \E in \in [ok : BOOLEAN, status : ErrexitStatuses] : CommitChanges(in)
    \/ \E in \in [ok : BOOLEAN, status : ErrexitStatuses] : PushOrDryRun(in)
    \/ ExportOutputs

SpecKui ==
    InitKui /\ [][NextKui]_vars

(***************************************************************************)
(* C21: in create-kui-pr.sh, once the SHA read from the production file    *)
(* equals the SHA read from the staging file, the script has exited with   *)
(* status 0, and it has not cloned konflux-ui, generated a changelog,      *)
(* created a branch, committed, pushed, or written a GITHUB_OUTPUT entry.  *)
(* Both versions of the script are covered.                                *)
(***************************************************************************)
C21_IdenticalShasExitZero ==
    (BASE_SHA # <<>> /\ BASE_SHA = TARGET_SHA) =>
        /\ kuiPc = "exited"
        /\ kuiExit = 0
        /\ githubOutput = <<>>
        /\ \A k \in 1..Len(kuiLog) :
               /\ kuiLog[k].op \notin {"generate-kui-changelog.sh",
                                       "git checkout -b", "git remote",
                                       "git add", "git commit", "git push"}
               /\ kuiLog[k].op = "gh repo clone"
                      => kuiLog[k].arg = "infra-upstream"

\* A run of the current version that read the same SHA from both files of
\* the clone and has ended.
C21_Witness ==
    /\ kuiVersion = "current"
    /\ upstreamClone.prod.exists
    /\ upstreamClone.stg.exists
    /\ validate_sha(BASE_SHA)
    /\ BASE_SHA = TARGET_SHA
    /\ kuiPc = "exited"
    /\ kuiLog[Len(kuiLog)] = KuiEv("info", "No changes detected")

====
